---- MODULE Spec2Model ----
(***************************************************************************)
(* Model of the dispatch-iq assignment engine.                             *)
(*                                                                         *)
(* Three engines of the repository are modelled, one per run (the variable *)
(* engine is chosen by Init and never changes):                            *)
(*   "agent"     dispatch_agent.py: the ML greedy loop over                *)
(*               assign_technician;                                        *)
(*   "fully_ml"  dispatch_agent_fully_ml.py: the loop over                 *)
(*               assign_technician_ml;                                     *)
(*   "optimizer" optimize_dispatches.py: DispatchOptimizer.run_optimization*)
(*               followed by run_post_optimization.                        *)
(*                                                                         *)
(* Units: probabilities and capacity ratios are integer percents, scores   *)
(* are hundredths of a point, times are quarter hours since midnight,      *)
(* distances are kilometres.                                               *)
(***************************************************************************)
EXTENDS Integers, Sequences, FiniteSets, TLC

\* ------------------------------------------------------------------------
\* Bounds of the model
\* ------------------------------------------------------------------------
\* number of rows of the dispatches table walked by the two agent loops
NumAgentDispatches == 2
\* number of rows of the dispatches table of the optimizer
NumDispatches == 2
\* number of calls of run_post_optimization on one optimizer
MaxRuns == 2

\* ------------------------------------------------------------------------
\* Domains of the input tables
\* ------------------------------------------------------------------------
Techs == {"T1", "T2"}
None == "None"
Cities == {"c1", "c2"}
Dates == {1, 2}
Skills == {"s1", "s2"}
\* great-circle distances (km) a (dispatch, technician) pair can have
DistVals == {10, 250}
\* outputs (percent) of the success predictor
SuccessVals == {22, 60}
\* (Workload_capacity, Current_assignments) of a technician row as loaded
TechLoads == {<<1, 0>>, <<1, 1>>, <<5, 5>>, <<5, 6>>, <<5, 7>>}

\* dispatch_agent_fully_ml.py: distance cap of assign_technician_ml
MAX_ACCEPTABLE_DISTANCE == 200

\* dispatch_agent.py: the (min_success_threshold, max_capacity_ratio) pairs
\* of SEASONAL_CONFIGS, DEMAND_THRESHOLDS and AVAILABILITY_THRESHOLDS
PolicyPresets ==
    { [min_success_threshold |-> 25, max_capacity_ratio |-> 115],
      [min_success_threshold |-> 27, max_capacity_ratio |-> 112],
      [min_success_threshold |-> 30, max_capacity_ratio |-> 110],
      [min_success_threshold |-> 25, max_capacity_ratio |-> 120],
      [min_success_threshold |-> 35, max_capacity_ratio |-> 100],
      [min_success_threshold |-> 20, max_capacity_ratio |-> 120] }

\* dispatch_agent_fully_ml.py: the thresholds learned from history;
\* ML_CAPACITY_LIMIT is 1.0 or the 95% quantile of the over-capacity ratios
MlThresholds ==
    { [ML_CAPACITY_LIMIT |-> 100, ML_CITY_STRICT |-> TRUE],
      [ML_CAPACITY_LIMIT |-> 100, ML_CITY_STRICT |-> FALSE],
      [ML_CAPACITY_LIMIT |-> 150, ML_CITY_STRICT |-> TRUE] }

VARIABLES
    engine,               \* which script runs
    technicians,          \* the technicians table as loaded
    calendar,             \* the calendar table as loaded: a set of rows
    policy,               \* thresholds fixed at run start
    dispatches,           \* optimizer: the dispatches table (a sequence)
    predictions,          \* optimizer: model outputs per (dispatch, tech)
    Current_assignments,  \* technicians['Current_assignments'], mutable
    idx,                  \* position of the assignment loop (1-based)
    optimized_ids,        \* agents: the list optimized_ids
    last_call,            \* agents: the last call of the loop body
    assignments,          \* optimizer: self.assignments, tech -> list
    assignment_map,       \* optimizer: self.assignment_map, in dict order
    stats,                \* optimizer: self.stats
    pc,                   \* optimizer: where main() stands
    pass_num,             \* run_post_optimization: current pass
    improvements_found,   \* run_post_optimization: total so far
    pass_improvements,    \* run_post_optimization: count of this pass
    sampled,              \* try_reassignments: entries still to try
    run_no,               \* number of run_post_optimization calls started
    run_start,            \* optimizer state when the current call started
    handed,               \* optimizer: ids handed to assign_dispatch by
                          \* run_optimization, in the order of the calls
    conditions,           \* policy layer: what apply_seasonal_adjustment
                          \* is called with
    season,               \* policy layer: what intelligent_auto_select chose
    skill_compatibility,  \* training: the grouped table skill_compatibility
    skill_compatibility_dict,  \* training: the learned table, in dict order
    skill_match_score     \* training: the last call of
                          \* calculate_skill_match_score and its result

inputVars == <<engine, technicians, calendar, policy, dispatches,
               predictions, conditions, season>>
agentVars == <<Current_assignments, optimized_ids, last_call>>
skillVars == <<skill_compatibility, skill_compatibility_dict,
               skill_match_score>>
optVars == <<assignments, assignment_map, stats, pc, pass_num,
             improvements_found, pass_improvements, sampled, run_no,
             run_start, handed>>
vars == <<engine, technicians, calendar, policy, dispatches, predictions,
          Current_assignments, idx, optimized_ids, last_call, assignments,
          assignment_map, stats, pc, pass_num, improvements_found,
          pass_improvements, sampled, run_no, run_start, handed,
          conditions, season, skill_compatibility,
          skill_compatibility_dict, skill_match_score>>

\* ------------------------------------------------------------------------
\* Helpers
\* ------------------------------------------------------------------------
RECURSIVE SumOver(_, _)
SumOver(S, f) ==
    IF S = {} THEN 0
    ELSE LET x == CHOOSE y \in S : TRUE
         IN  f[x] + SumOver(S \ {x}, f)

\* number of entries of a list equal to x
CountOf(list, x) == Cardinality({i \in DOMAIN list : list[i] = x})

\* ------------------------------------------------------------------------
\* dispatch_agent.py
\* ------------------------------------------------------------------------
\* technicians whose calendar row for the date has Available == 1
AvailableIds(dispatch_date) ==
    {r.Technician_id : r \in {c \in calendar : c.Date = dispatch_date
                                              /\ c.Available = 1}}

get_all_available_techs_ml(dispatch_date, city, max_capacity_ratio) ==
    IF {c \in calendar : c.Date = dispatch_date} = {} THEN {}
    ELSE IF AvailableIds(dispatch_date) = {} THEN {}
    ELSE IF city = None THEN {}
    ELSE {t \in AvailableIds(dispatch_date) :
            /\ technicians[t].City = city
            /\ technicians[t].Workload_capacity > 0
            /\ Current_assignments[t] * 100
                 <= max_capacity_ratio * technicians[t].Workload_capacity}

\* the filter on success_prob left out
AboveThresholdUnfiltered(candidates, prob) == candidates

\* candidates that survive the MIN_SUCCESS_THRESHOLD filter
AboveThreshold(candidates, prob) ==
    {t \in candidates : prob[t] >= policy.min_success_threshold}

\* rows that sort_values('final_score', ascending=False) can put first:
\* final_score is success_prob and the sort is not stable
BestByScore(candidates, prob) ==
    {t \in candidates : \A u \in candidates : prob[u] <= prob[t]}

\* the tuple returned by assign_technician for a chosen best row (or none)
assign_technician(row, dist, prob, best) ==
    LET candidates == get_all_available_techs_ml(
                          row.Appointment_date, row.City,
                          policy.max_capacity_ratio)
        kept == AboveThreshold(candidates, prob)
    IN  IF candidates = {}
        THEN [tech |-> None, prob |-> 0, fallback_level |-> "no_match",
              distance |-> 0]
        ELSE IF kept = {}
        THEN [tech |-> None, prob |-> 0,
              fallback_level |-> "ml_below_threshold", distance |-> 0]
        ELSE [tech |-> best, prob |-> prob[best],
              fallback_level |-> "ml_based", distance |-> dist[best]]

\* the rows assign_technician may pick as best
assign_technician_choices(row, prob) ==
    LET kept == AboveThreshold(
                    get_all_available_techs_ml(row.Appointment_date,
                        row.City, policy.max_capacity_ratio), prob)
    IN  IF kept = {} THEN {None} ELSE BestByScore(kept, prob)

\* what the loop records when the call raised
ErrorResult ==
    [tech |-> None, prob |-> 0, fallback_level |-> "error", distance |-> 0]

\* the in-memory update left out
UpdateWorkloadSkipped(tech_id) == Current_assignments

\* technicians.loc[tech_idx, 'Current_assignments'] += 1
UpdateWorkload(tech_id) ==
    IF tech_id \in Techs
    THEN [Current_assignments EXCEPT ![tech_id] = @ + 1]
    ELSE Current_assignments

\* the record of one call: the row it was given, the counters before it,
\* the highest success probability among the candidates of the call
\* (-1 without candidates) and what the loop appended
CallRecord(row, prob, candidates, r) ==
    [date |-> row.Appointment_date,
     before |-> Current_assignments,
     candidates |-> candidates,
     best_prob |-> IF candidates = {} THEN 0 - 1
                   ELSE CHOOSE p \in {prob[t] : t \in candidates} :
                            \A t \in candidates : prob[t] <= p,
     tech |-> r.tech,
     prob |-> r.prob,
     fallback_level |-> r.fallback_level,
     distance |-> r.distance]

AgentRows == [Appointment_date : Dates, City : Cities]

\* one iteration of the loop `for idx, row in dispatches.iterrows()`; the
\* call either raises before it touches the counters or returns
AssignmentLoopStep ==
    /\ engine = "agent"
    /\ idx <= NumAgentDispatches
    /\ \E row \in AgentRows, prob \in [Techs -> SuccessVals] :
         LET candidates == get_all_available_techs_ml(row.Appointment_date,
                               row.City, policy.max_capacity_ratio)
         IN  \/ /\ UNCHANGED Current_assignments
                /\ optimized_ids' = Append(optimized_ids, None)
                /\ last_call' = CallRecord(row, prob, candidates, ErrorResult)
             \/ \E dist \in [Techs -> DistVals],
                   best \in assign_technician_choices(row, prob) :
                  LET r == assign_technician(row, dist, prob, best)
                  IN  /\ Current_assignments' = UpdateWorkload(r.tech)
                      /\ optimized_ids' = Append(optimized_ids, r.tech)
                      /\ last_call' = CallRecord(row, prob, candidates, r)
    /\ idx' = idx + 1
    /\ UNCHANGED <<inputVars, skillVars, optVars>>

\* ------------------------------------------------------------------------
\* dispatch_agent.py: the adaptive policy layer
\* ------------------------------------------------------------------------
\* INTELLIGENT_AUTO_CONFIG without its priority_order entry; the two demand
\* thresholds are percents of the baseline
INTELLIGENT_AUTO_CONFIG ==
    [enable_demand_override |-> TRUE,
     enable_availability_override |-> TRUE,
     demand_baseline |-> 500,
     high_demand_threshold |-> 150,
     low_demand_threshold |-> 80,
     high_availability |-> 50,
     low_availability |-> 20]

Preset(min_success_threshold, max_capacity_ratio) ==
    [min_success_threshold |-> min_success_threshold,
     max_capacity_ratio |-> max_capacity_ratio]

SEASONAL_CONFIGS ==
    [peak |-> Preset(25, 115), normal |-> Preset(27, 112),
     low |-> Preset(30, 110), morning |-> Preset(30, 110),
     afternoon |-> Preset(27, 112), evening |-> Preset(25, 115)]

DEMAND_THRESHOLDS ==
    [high_demand |-> Preset(25, 120), normal_demand |-> Preset(27, 112),
     low_demand |-> Preset(30, 110)]

AVAILABILITY_THRESHOLDS ==
    [high_availability |-> Preset(35, 100),
     normal_availability |-> Preset(27, 112),
     low_availability |-> Preset(20, 120)]

\* a count that could not be read (None in the script)
NoCount == 0 - 1
\* the config of a factor that has none (None in the script)
NoConfig == Preset(0, 0)

\* one entry of the list `factors`
Factor(name, score, config, factor_season) ==
    [name |-> name, score |-> score, config |-> config,
     season |-> factor_season]

\* FACTOR 1: Demand Analysis
DemandFactor(dispatch_count) ==
    IF dispatch_count = NoCount
       \/ ~INTELLIGENT_AUTO_CONFIG.enable_demand_override
    THEN Factor("demand", 0, NoConfig, None)
    ELSE IF dispatch_count * 100
              > INTELLIGENT_AUTO_CONFIG.high_demand_threshold
                  * INTELLIGENT_AUTO_CONFIG.demand_baseline
    THEN Factor("demand", 10, DEMAND_THRESHOLDS.high_demand, "high_demand")
    ELSE IF dispatch_count * 100
              < INTELLIGENT_AUTO_CONFIG.low_demand_threshold
                  * INTELLIGENT_AUTO_CONFIG.demand_baseline
    THEN Factor("demand", 8, DEMAND_THRESHOLDS.low_demand, "low_demand")
    ELSE Factor("demand", 2, DEMAND_THRESHOLDS.normal_demand,
                "normal_demand")

\* FACTOR 2: Availability Analysis
AvailabilityFactor(available_tech_count) ==
    IF available_tech_count = NoCount
       \/ ~INTELLIGENT_AUTO_CONFIG.enable_availability_override
    THEN Factor("availability", 0, NoConfig, None)
    ELSE IF available_tech_count > INTELLIGENT_AUTO_CONFIG.high_availability
    THEN Factor("availability", 9,
                AVAILABILITY_THRESHOLDS.high_availability,
                "high_availability")
    ELSE IF available_tech_count < INTELLIGENT_AUTO_CONFIG.low_availability
    THEN Factor("availability", 10,
                AVAILABILITY_THRESHOLDS.low_availability,
                "low_availability")
    ELSE Factor("availability", 2,
                AVAILABILITY_THRESHOLDS.normal_availability,
                "normal_availability")

\* FACTOR 3: Time-based: the hour of the day, else the month, else normal
TimeFactor(current_hour, current_month) ==
    IF current_hour \in 6..11
    THEN Factor("time", 5, SEASONAL_CONFIGS.morning, "morning")
    ELSE IF current_hour \in 12..16
    THEN Factor("time", 5, SEASONAL_CONFIGS.afternoon, "afternoon")
    ELSE IF current_hour \in 17..21
    THEN Factor("time", 5, SEASONAL_CONFIGS.evening, "evening")
    ELSE IF current_month \in {11, 12}
    THEN Factor("time", 4, SEASONAL_CONFIGS.peak, "peak")
    ELSE IF current_month \in {1, 2}
    THEN Factor("time", 4, SEASONAL_CONFIGS.low, "low")
    ELSE IF current_month \in 3..10
    THEN Factor("time", 4, SEASONAL_CONFIGS.normal, "normal")
    ELSE Factor("time", 1, SEASONAL_CONFIGS.normal, "normal")

\* insertion of a factor into a list sorted by score, highest first, behind
\* the entries of equal score
RECURSIVE InsertByScore(_, _)
InsertByScore(factor, sorted) ==
    IF sorted = <<>> THEN <<factor>>
    ELSE IF factor.score > Head(sorted).score
    THEN <<factor>> \o sorted
    ELSE <<Head(sorted)>> \o InsertByScore(factor, Tail(sorted))

\* sorted(factors, key=lambda x: x[1], reverse=True): stable, so factors of
\* equal score keep the order demand, availability, time
RECURSIVE factors_sorted(_)
factors_sorted(factors) ==
    IF factors = <<>> THEN <<>>
    ELSE InsertByScore(factors[Len(factors)],
             factors_sorted(SubSeq(factors, 1, Len(factors) - 1)))

\* the factors of a list that have a config and a score above 5
HighPriority(factors) ==
    SelectSeq(factors, LAMBDA f : f.config # NoConfig /\ f.score > 5)

\* the factors that have a config, by score and not by priority_order
InScoreOrder(priority_order, factors) ==
    SelectSeq(factors_sorted(factors), LAMBDA f : f.config # NoConfig)

\* "If no high-priority factor, use priority order": the factors that have
\* a config, in the order of priority_order
InPriorityOrder(priority_order, factors) ==
    SelectSeq([i \in DOMAIN priority_order |->
                  factors[CHOOSE k \in DOMAIN factors :
                              factors[k].name = priority_order[i]]],
              LAMBDA f : f.config # NoConfig)

\* the decision once the candidates of the two loops are known; the time
\* factor is the final fallback
Decide(high, ordered, time_factor) ==
    IF high # <<>> THEN Head(high)
    ELSE IF ordered # <<>> THEN Head(ordered)
    ELSE time_factor

\* the first three entries of the returned tuple
ChosenTuple(f) ==
    [chosen_factor |-> f.name, chosen_season |-> f.season,
     chosen_config |-> f.config]

Factors(c) ==
    <<DemandFactor(c.dispatch_count),
      AvailabilityFactor(c.available_tech_count),
      TimeFactor(c.current_hour, c.current_month)>>

intelligent_auto_select(c) ==
    ChosenTuple(Decide(HighPriority(factors_sorted(Factors(c))),
                   InPriorityOrder(c.priority_order, Factors(c)),
                   TimeFactor(c.current_hour, c.current_month)))

\* apply_seasonal_adjustment with strategy "intelligent_auto": the chosen
\* thresholds become MIN_SUCCESS_THRESHOLD and MAX_CAPACITY_RATIO
Adjusted(chosen) ==
    /\ policy' = chosen.chosen_config
    /\ season' = [chosen_by |-> chosen.chosen_factor,
                  season_name |-> chosen.chosen_season]

apply_seasonal_adjustment ==
    /\ engine = "policy_layer"
    /\ season = <<>>
    /\ Adjusted(intelligent_auto_select(conditions))
    /\ UNCHANGED <<engine, technicians, calendar, dispatches, predictions,
                   conditions, agentVars, optVars, idx, skillVars>>

\* ------------------------------------------------------------------------
\* dispatch_agent.py: skill compatibility learned from history
\* ------------------------------------------------------------------------
\* Skill scores are in thousandths (1.0 = 1000); a success rate is the pair
\* success_count / total_count of a row, a mean of rates is a fraction
\* <<numerator, denominator>>; the one rounding is the floor to a thousandth

\* a missing skill value, for which pd.isna is true
NaN == "nan"

\* no entry under a key of skill_compatibility_dict
NoScore == 0 - 1

\* np.clip
Clip(x, lo, hi) == IF x < lo THEN lo ELSE IF x > hi THEN hi ELSE x

\* the rows of skill_compatibility with Required_skill = Tech_skill
exact_matches(rows) ==
    SelectSeq(rows, LAMBDA r : r.Required_skill = r.Tech_skill)

\* a fraction plus the success rate of a row
AddRate(row, f) ==
    <<row.success_count * f[2] + f[1] * row.total_count,
      row.total_count * f[2]>>

\* the sum of the success rates of rows
RECURSIVE SumOfRates(_)
SumOfRates(rows) ==
    IF rows = <<>> THEN <<0, 1>>
    ELSE AddRate(Head(rows), SumOfRates(Tail(rows)))

\* Series.mean over the rates that are not NaN (a group whose targets are
\* all missing has count 0 and rate NaN); the mean of none is NaN, here the
\* fraction 0/1, which like NaN fails the test baseline_success_rate > 0
MeanOfRates(known) ==
    IF known = <<>> THEN <<0, 1>>
    ELSE <<SumOfRates(known)[1], SumOfRates(known)[2] * Len(known)>>

\* baseline_success_rate: the mean success rate of the exact matches, 0.5
\* when history has none
baseline_success_rate(rows) ==
    IF exact_matches(rows) = <<>> THEN <<1, 2>>
    ELSE MeanOfRates(SelectSeq(exact_matches(rows),
                               LAMBDA r : r.total_count > 0))

\* normalized_score, clipped: 0.3 + 0.7 * (success_rate / baseline), or 0.5
\* when the baseline is not positive
NormalizedScore(success_count, total_count, baseline) ==
    IF baseline[1] > 0
    THEN Clip(300 + (700 * success_count * baseline[2])
                      \div (total_count * baseline[1]), 100, 950)
    ELSE 500

\* a score from the sample count and the rate alone, the same for an exact
\* match as for any other pair
RateOnlyScore(req_skill, tech_skill, success_count, total_count, baseline) ==
    IF total_count < 3 THEN 300
    ELSE NormalizedScore(success_count, total_count, baseline)

\* the score stored for a pair: 1.0 for an exact match; for another pair 0.3
\* below three samples (or with a NaN rate) and the clipped normalized score
\* from three samples on
LearnedScore(req_skill, tech_skill, success_count, total_count, baseline) ==
    IF total_count < 3
    THEN IF req_skill = tech_skill THEN 1000 ELSE 300
    ELSE IF req_skill = tech_skill THEN 1000
         ELSE NormalizedScore(success_count, total_count, baseline)

\* the entry stored in skill_compatibility_dict for a row
EntryOf(row, baseline) ==
    [Required_skill |-> row.Required_skill,
     Tech_skill |-> row.Tech_skill,
     score |-> LearnedScore(row.Required_skill, row.Tech_skill,
                            row.success_count, row.total_count, baseline),
     success_count |-> row.success_count,
     count |-> row.total_count]

\* one iteration of the loop that fills skill_compatibility_dict
LearnSkillPair ==
    /\ engine = "training"
    /\ Len(skill_compatibility_dict) < Len(skill_compatibility)
    /\ skill_compatibility_dict' =
          Append(skill_compatibility_dict,
                 EntryOf(
                     skill_compatibility[Len(skill_compatibility_dict) + 1],
                     baseline_success_rate(skill_compatibility)))
    /\ UNCHANGED <<inputVars, agentVars, optVars, idx, skill_compatibility,
                   skill_match_score>>

\* the scores stored under a key
ScoresUnder(dict, req_skill, tech_skill) ==
    SelectSeq(dict, LAMBDA e : /\ e.Required_skill = req_skill
                               /\ e.Tech_skill = tech_skill)

\* skill_compatibility_dict[key]['score'], NoScore when the key is absent
ScoreUnder(dict, req_skill, tech_skill) ==
    IF ScoresUnder(dict, req_skill, tech_skill) = <<>> THEN NoScore
    ELSE Head(ScoresUnder(dict, req_skill, tech_skill)).score

\* the scores of the entries that are not exact matches
non_exact_scores(dict) ==
    SelectSeq(dict, LAMBDA e : e.Required_skill # e.Tech_skill)

\* the sum of the scores of entries
RECURSIVE SumOfScores(_)
SumOfScores(entries) ==
    IF entries = <<>> THEN 0
    ELSE Head(entries).score + SumOfScores(Tail(entries))

\* default_score: the mean of the learned non-exact scores, 0.4 without any
default_score(entries) ==
    IF entries = <<>> THEN 400
    ELSE SumOfScores(entries) \div Len(entries)

\* the steps of calculate_skill_match_score after the exact-match test: the
\* key, the reverse key, then the clipped default
FromTable(dict, req_skill, tech_skill) ==
    IF ScoreUnder(dict, req_skill, tech_skill) # NoScore
    THEN ScoreUnder(dict, req_skill, tech_skill)
    ELSE IF ScoreUnder(dict, tech_skill, req_skill) # NoScore
         THEN ScoreUnder(dict, tech_skill, req_skill)
         ELSE Clip(default_score(non_exact_scores(dict)), 200, 600)

\* calculate_skill_match_score, reading the global skill_compatibility_dict
calculate_skill_match_score(required_skill, tech_skill) ==
    IF required_skill = NaN \/ tech_skill = NaN THEN 300
    ELSE IF required_skill = tech_skill THEN 1000
         ELSE FromTable(skill_compatibility_dict, required_skill, tech_skill)

\* the skill names history and the technicians table can hold
HistorySkills == {"s1", "s2", "s3"}

\* a call of calculate_skill_match_score once the table is learned
ScoreSkillMatch ==
    /\ engine = "training"
    /\ Len(skill_compatibility_dict) = Len(skill_compatibility)
    /\ \E required_skill \in HistorySkills \cup {NaN} :
         \E tech_skill \in HistorySkills \cup {NaN} :
           skill_match_score' =
              [required_skill |-> required_skill,
               tech_skill |-> tech_skill,
               score |-> calculate_skill_match_score(required_skill,
                                                     tech_skill)]
    /\ UNCHANGED <<inputVars, agentVars, optVars, idx, skill_compatibility,
                   skill_compatibility_dict>>

\* ------------------------------------------------------------------------
\* dispatch_agent_fully_ml.py
\* ------------------------------------------------------------------------
get_available_techs(dispatch_date, required_skill, city) ==
    LET techs == {t \in Techs : technicians[t].Primary_skill = required_skill}
        available_ids == AvailableIds(dispatch_date)
        on_calendar == techs \cap available_ids
        in_city ==
            IF city # None
            THEN IF policy.ML_CITY_STRICT
                 THEN {t \in on_calendar : technicians[t].City = city}
                 ELSE on_calendar
            ELSE IF policy.ML_CITY_STRICT THEN {} ELSE on_calendar
    IN  IF techs = {} \/ available_ids = {} THEN {}
        ELSE {t \in in_city :
                /\ technicians[t].Workload_capacity > 0
                /\ IF policy.ML_CAPACITY_LIMIT # 0
                   THEN Current_assignments[t] * 100
                          < policy.ML_CAPACITY_LIMIT
                              * technicians[t].Workload_capacity
                   ELSE Current_assignments[t]
                          < technicians[t].Workload_capacity}

\* technicians['Primary_skill'].dropna().unique().tolist(): order of first
\* appearance in the table
get_all_available_skills_from_technicians ==
    IF technicians["T1"].Primary_skill = technicians["T2"].Primary_skill
    THEN <<technicians["T1"].Primary_skill>>
    ELSE <<technicians["T1"].Primary_skill, technicians["T2"].Primary_skill>>

\* level_2_ml: the candidates of the first skill that has any
RECURSIVE FirstSkillWithCandidates(_, _, _)
FirstSkillWithCandidates(all_skills, dispatch_date, city) ==
    IF all_skills = <<>> THEN {}
    ELSE LET c == get_available_techs(dispatch_date, Head(all_skills), city)
         IN  IF c # {} THEN c
             ELSE FirstSkillWithCandidates(Tail(all_skills), dispatch_date,
                                           city)

get_available_techs_with_cascading_fallback_ml(dispatch_date, required_skill, city) ==
    LET level1 == get_available_techs(dispatch_date, required_skill, city)
        level2 == FirstSkillWithCandidates(
                      get_all_available_skills_from_technicians,
                      dispatch_date, city)
    IN  IF level1 # {} THEN [candidates |-> level1, name |-> "level_1_ml"]
        ELSE IF level2 # {}
        THEN [candidates |-> level2, name |-> "level_2_ml"]
        ELSE [candidates |-> {}, name |-> "no_match"]

\* candidates[candidates['distance_km'] <= MAX_ACCEPTABLE_DISTANCE]
WithinDistance(candidates, dist) ==
    {t \in candidates : dist[t] <= MAX_ACCEPTABLE_DISTANCE}

\* rows that can come first by final_score = 0.60*success_prob
\* + 0.30*exp(-distance/8.5) + 0.10*(1 - workload_ratio): the success
\* term outweighs the two others, so the predictor decides the winner
assign_technician_ml_choices(row, dist) ==
    LET c == WithinDistance(
                 get_available_techs_with_cascading_fallback_ml(
                     row.Appointment_date, row.Required_skill,
                     row.City).candidates, dist)
    IN  IF c = {} THEN {None} ELSE c

assign_technician_ml(row, dist, prob, best) ==
    LET found == get_available_techs_with_cascading_fallback_ml(
                     row.Appointment_date, row.Required_skill, row.City)
        near == WithinDistance(found.candidates, dist)
    IN  IF found.candidates = {}
        THEN [tech |-> None, prob |-> 0, fallback_level |-> "no_match",
              distance |-> 0]
        ELSE IF near = {}
        THEN [tech |-> None, prob |-> 0,
              fallback_level |-> "no_match_distance", distance |-> 0]
        ELSE [tech |-> best, prob |-> prob[best],
              fallback_level |-> found.name, distance |-> dist[best]]

FullyMlRows ==
    [Appointment_date : Dates, City : Cities, Required_skill : Skills]

\* one iteration of the loop over assign_technician_ml
AssignmentLoopStepMl ==
    /\ engine = "fully_ml"
    /\ idx <= NumAgentDispatches
    /\ \E row \in FullyMlRows, prob \in [Techs -> SuccessVals] :
         LET candidates == get_available_techs_with_cascading_fallback_ml(
                               row.Appointment_date, row.Required_skill,
                               row.City).candidates
         IN  \/ /\ UNCHANGED Current_assignments
                /\ optimized_ids' = Append(optimized_ids, None)
                /\ last_call' = CallRecord(row, prob, candidates, ErrorResult)
             \/ \E dist \in [Techs -> DistVals] :
                \E best \in assign_technician_ml_choices(row, dist) :
                  LET r == assign_technician_ml(row, dist, prob, best)
                  IN  /\ Current_assignments' = UpdateWorkload(r.tech)
                      /\ optimized_ids' = Append(optimized_ids, r.tech)
                      /\ last_call' = CallRecord(row, prob, candidates, r)
    /\ idx' = idx + 1
    /\ UNCHANGED <<inputVars, skillVars, optVars>>

\* ------------------------------------------------------------------------
\* optimize_dispatches.py: Assignment, scoring, availability
\* ------------------------------------------------------------------------
\* row order of the technicians DataFrame
TechOrder == <<"T1", "T2">>

PRIORITY_ORDER == [Critical |-> 0, High |-> 1, Normal |-> 2, Low |-> 3]

\* a datetime is (date, quarter hour of the day) packed into one number
DateOf(datetime) == datetime \div 96
TimeOf(datetime) == datetime % 96

\* the buffer is added to the end of `other` only
overlaps_with(self, other, buffer_minutes) ==
    /\ self.start_datetime < other.end_datetime + buffer_minutes
    /\ self.end_datetime > other.start_datetime

\* a loader that skips the filter on available
load_calendar_unfiltered == calendar

\* DataLoader.load_calendar keeps the rows with available == 1
load_calendar == {c \in calendar : c.Available = 1}

Warning(kind, arg) == [kind |-> kind, arg |-> arg]

\* the texts '"concurrent appointments" in str(warnings)' and
\* '"concurrent" in w.lower()' match
ConcurrentTexts ==
    {"Already concurrent appointments",
     "FALLBACK: Allowing 3 concurrent appointments"}
\* the texts "after shift" matches
AfterShiftTexts == {"End after shift"}
\* the texts "110%" matches
Texts110 == {"FALLBACK: Allowing 110% workload"}
\* the texts 'FALLBACK' matches
FallbackTexts ==
    {"FALLBACK: Allowing 3 concurrent appointments",
     "FALLBACK: Allowing overtime",
     "FALLBACK: Allowing 110% workload",
     "FALLBACK: Forced assignment"}

\* a substring test over the warnings: some warning is one of `texts`
AnyWarning(warnings, texts) ==
    \E i \in DOMAIN warnings : warnings[i].kind \in texts

\* [w for w in warnings if <text> not in w.lower()]
Without(warnings, texts) ==
    SelectSeq(warnings, LAMBDA w : w.kind \notin texts)

\* warnings of the loop over the technician's existing assignments
RECURSIVE ConflictWarnings(_, _, _)
ConflictWarnings(tech_assignments, dispatch, buffer_minutes) ==
    IF tech_assignments = <<>> THEN <<>>
    ELSE LET existing == Head(tech_assignments)
             rest == ConflictWarnings(Tail(tech_assignments), dispatch,
                                      buffer_minutes)
         IN  IF overlaps_with(existing,
                    [start_datetime |-> dispatch.appointment_start_datetime,
                     end_datetime |-> dispatch.appointment_end_datetime],
                    buffer_minutes)
             THEN <<Warning("Time conflict with dispatch",
                            existing.dispatch_id)>> \o rest
             ELSE rest

RECURSIVE SumSeq(_)
SumSeq(q) == IF q = <<>> THEN 0 ELSE Head(q) + SumSeq(Tail(q))

check_availability(dispatch, tech_id, asg, buffer_minutes) ==
    LET dispatch_date == DateOf(dispatch.appointment_start_datetime)
        calendar_entry == {c \in load_calendar :
                              /\ c.Technician_id = tech_id
                              /\ c.Date = dispatch_date}
        entry == CHOOSE c \in calendar_entry : TRUE
        tech_assignments == asg[tech_id]
        w_start ==
            IF TimeOf(dispatch.appointment_start_datetime) < entry.Start_time
            THEN <<Warning("Start before shift", 0)>> ELSE <<>>
        w_end ==
            IF TimeOf(dispatch.appointment_end_datetime) > entry.End_time
            THEN <<Warning("End after shift", 0)>> ELSE <<>>
        w_conflict == ConflictWarnings(tech_assignments, dispatch,
                                       buffer_minutes)
        concurrent_count ==
            Cardinality({i \in DOMAIN tech_assignments :
                /\ dispatch.appointment_start_datetime
                     < tech_assignments[i].end_datetime
                /\ dispatch.appointment_end_datetime
                     > tech_assignments[i].start_datetime})
        w_concurrent ==
            IF concurrent_count >= 2
            THEN <<Warning("Already concurrent appointments",
                           concurrent_count)>>
            ELSE <<>>
        total_scheduled ==
            SumSeq([i \in DOMAIN tech_assignments |->
                IF DateOf(tech_assignments[i].start_datetime) = dispatch_date
                THEN tech_assignments[i].end_datetime
                       - tech_assignments[i].start_datetime
                ELSE 0])
        dispatch_duration == dispatch.appointment_end_datetime
                               - dispatch.appointment_start_datetime
        w_total ==
            IF total_scheduled + dispatch_duration
                 > entry.End_time - entry.Start_time
            THEN <<Warning("Total scheduled exceeds shift",
                           total_scheduled + dispatch_duration)>>
            ELSE <<>>
        warnings == w_start \o w_end \o w_conflict \o w_concurrent \o w_total
    IN  IF calendar_entry = {}
        THEN [is_available |-> FALSE,
              warnings |-> <<Warning("Technician not available on this date",
                                     0)>>,
              has_calendar_entry |-> FALSE]
        ELSE [is_available |-> (warnings = <<>>),
              warnings |-> warnings,
              has_calendar_entry |-> TRUE]

\* OVERLAP_THRESHOLD = {'Critical': 0.20, 'High': 0.25}, in percent
OVERLAP_THRESHOLD == [Critical |-> 20, High |-> 25]

can_use_overlap_exception(dispatch, success_prob, best_non_overlap_prob) ==
    IF dispatch.priority \notin DOMAIN OVERLAP_THRESHOLD THEN FALSE
    ELSE success_prob - best_non_overlap_prob
           >= OVERLAP_THRESHOLD[dispatch.priority]

\* score in hundredths of a point; workload_ratio is num/cap
calculate_score(success_prob, num, cap, distance, overrun, max_distance, max_overrun) ==
    LET success_score == success_prob * 50
        workload_score ==
            IF num * 5 <= cap * 4 THEN 3500
            ELSE IF num <= cap THEN (17500 * (cap - num)) \div cap
            ELSE 0 - 5000
        distance_score ==
            IF max_distance > 0
            THEN (1000 * (max_distance - distance)) \div max_distance
            ELSE 1000
        capped == IF overrun < max_overrun THEN overrun ELSE max_overrun
        overrun_score ==
            IF max_overrun > 0 /\ overrun >= 0
            THEN (500 * (max_overrun - capped)) \div max_overrun
            ELSE IF overrun <= 0 THEN 500 ELSE 0
    IN  success_score + workload_score + distance_score + overrun_score

\* ------------------------------------------------------------------------
\* optimize_dispatches.py: DispatchOptimizer.assign_dispatch
\* ------------------------------------------------------------------------
\* a buffer of one hour at every level
BufferOfAnHour(fallback_level) == 4

BufferOfLevel(fallback_level) ==
    IF fallback_level = 0 THEN 2
    ELSE IF fallback_level = 1 THEN 1
    ELSE 0

\* level 3: a technician blocked with a "concurrent appointments" warning
\* is let through; r is the pair (can_assign, warnings)
RelaxConcurrent(r, fallback_level) ==
    IF ~r.can /\ fallback_level >= 3 /\ AnyWarning(r.w, ConcurrentTexts)
    THEN [can |-> TRUE,
          w |-> Append(Without(r.w, ConcurrentTexts),
                  Warning("FALLBACK: Allowing 3 concurrent appointments", 0))]
    ELSE r

\* level 4: a technician blocked with an "after shift" warning is let through
RelaxOvertime(r, fallback_level) ==
    IF ~r.can /\ fallback_level >= 4 /\ AnyWarning(r.w, AfterShiftTexts)
    THEN [can |-> TRUE,
          w |-> Append(Without(r.w, AfterShiftTexts),
                       Warning("FALLBACK: Allowing overtime", 0))]
    ELSE r

\* level 5: a technician whose future workload ratio is at most 1.1 is let
\* through
Relax110(r, fallback_level, num, cap) ==
    IF ~r.can /\ fallback_level >= 5
       /\ ~AnyWarning(r.w, Texts110) /\ num * 10 <= cap * 11
    THEN [can |-> TRUE,
          w |-> Append(r.w, Warning("FALLBACK: Allowing 110% workload", 0))]
    ELSE r

\* level 6: every technician is let through
RelaxForced(r, fallback_level) ==
    IF ~r.can /\ fallback_level >= 6
    THEN [can |-> TRUE,
          w |-> Append(r.w, Warning("FALLBACK: Forced assignment", 0))]
    ELSE r

\* the workload rule: the warning it appends, if any
WorkloadWarnings(priority, num, cap) ==
    IF priority \in {"Low", "Normal"} /\ num > cap
    THEN <<Warning("Workload would exceed 100%", 0)>>
    ELSE IF num * 10 > cap * 12
    THEN <<Warning("Workload would exceed 120%", 0)>>
    ELSE IF num > cap
    THEN <<Warning("Workload would be over 100%", (num * 1000) \div cap)>>
    ELSE <<>>

\* the workload rule: workload_ok
WorkloadOk(priority, num, cap) ==
    /\ ~(priority \in {"Low", "Normal"} /\ num > cap)
    /\ ~(num * 10 > cap * 12)

\* the option a technician makes once the relaxations have run
OptionOf(tech_id, fallback_level, r, pred, num, cap) ==
    [technician_id |-> tech_id,
     can_assign |-> r.can \/ fallback_level >= 6,
     success_prob |-> pred.success_prob,
     distance |-> pred.distance,
     overrun |-> pred.overrun,
     num |-> num,
     cap |-> cap,
     warnings |-> r.w,
     is_clean |-> (r.w = <<>>)]

\* the availability check and the workload rule, before any relaxation
StrictVerdict(av, priority, num, cap) ==
    [can |-> av.is_available /\ WorkloadOk(priority, num, cap),
     w |-> av.warnings \o WorkloadWarnings(priority, num, cap)]

\* the body of the loop over candidate_techs for one technician that has a
\* calendar entry: the availability check, the workload rule and the
\* fallback relaxations
EvaluateTech(dispatch, tech_id, asg, fallback_level) ==
    OptionOf(tech_id, fallback_level,
        RelaxForced(
            Relax110(
                RelaxOvertime(
                    RelaxConcurrent(
                        StrictVerdict(
                            check_availability(dispatch, tech_id, asg,
                                BufferOfLevel(fallback_level)),
                            dispatch.priority,
                            Len(asg[tech_id]) + 1,
                            technicians[tech_id].Workload_capacity),
                        fallback_level),
                    fallback_level),
                fallback_level,
                Len(asg[tech_id]) + 1,
                technicians[tech_id].Workload_capacity),
            fallback_level),
        predictions[dispatch.dispatch_id][tech_id],
        Len(asg[tech_id]) + 1,
        technicians[tech_id].Workload_capacity)

\* "if not has_calendar_entry: continue"
HasCalendarEntry(dispatch, tech_id) ==
    \E c \in load_calendar :
        /\ c.Technician_id = tech_id
        /\ c.Date = DateOf(dispatch.appointment_start_datetime)

\* technicians that pass the state / city / calendar pre-filter; the field
\* escalate tells the pre-filter asked for the next fallback level and
\* give_up that it returned None
CandidateTechs(dispatch, fallback_level) ==
    LET dispatch_date == DateOf(dispatch.appointment_start_datetime)
        in_state == {t \in Techs : technicians[t].State = dispatch.state}
        state_filtered == IF in_state = {} THEN Techs ELSE in_state
        city_filtered ==
            IF dispatch.city # None
            THEN {t \in state_filtered : technicians[t].City = dispatch.city}
            ELSE {}
        on_date(S) == {c.Technician_id : c \in {r \in load_calendar :
                          r.Date = dispatch_date /\ r.Technician_id \in S}}
        available_calendar_city == on_date(city_filtered)
        available_calendar_state == on_date(state_filtered)
    IN  IF in_state = {} /\ fallback_level >= 6
        THEN [techs |-> {}, escalate |-> FALSE, give_up |-> TRUE]
        ELSE IF available_calendar_city # {}
        THEN [techs |-> available_calendar_city, escalate |-> FALSE,
              give_up |-> FALSE]
        ELSE IF available_calendar_state = {} /\ fallback_level < 6
        THEN [techs |-> {}, escalate |-> TRUE, give_up |-> FALSE]
        ELSE IF available_calendar_state # {}
        THEN [techs |-> available_calendar_state, escalate |-> FALSE,
              give_up |-> FALSE]
        ELSE [techs |-> state_filtered, escalate |-> FALSE,
              give_up |-> FALSE]

\* the technicians of `cand` in row order that have a calendar entry
EvaluatedOrder(dispatch, cand) ==
    SelectSeq(TechOrder,
              LAMBDA t : t \in cand /\ HasCalendarEntry(dispatch, t))

\* the loop over the technicians `order`: the options that can be assigned
OptionsAmong(dispatch, order, asg, fallback_level) ==
    SelectSeq([i \in DOMAIN order |->
                  EvaluateTech(dispatch, order[i], asg, fallback_level)],
              LAMBDA o : o.can_assign)

\* the options list, in the row order of candidate_techs
OptionsOf(dispatch, asg, fallback_level) ==
    OptionsAmong(dispatch,
        EvaluatedOrder(dispatch,
                       CandidateTechs(dispatch, fallback_level).techs),
        asg, fallback_level)

RECURSIVE MaxOf(_)
MaxOf(q) ==
    IF Len(q) = 1 THEN Head(q)
    ELSE LET m == MaxOf(Tail(q)) IN IF Head(q) >= m THEN Head(q) ELSE m

ScoredOptions(options) ==
    LET max_distance == MaxOf([i \in DOMAIN options |-> options[i].distance])
        max_overrun == MaxOf([i \in DOMAIN options |->
            IF options[i].overrun > 0 THEN options[i].overrun ELSE 0])
    IN  [i \in DOMAIN options |->
            [technician_id |-> options[i].technician_id,
             success_prob |-> options[i].success_prob,
             distance |-> options[i].distance,
             warnings |-> options[i].warnings,
             is_clean |-> options[i].is_clean,
             score |-> calculate_score(options[i].success_prob,
                           options[i].num, options[i].cap,
                           options[i].distance, options[i].overrun,
                           max_distance, max_overrun)]]

\* key of options.sort(key=lambda x: (x['is_clean'], x['score']),
\* reverse=True): a goes before b
SortsBefore(a, b) ==
    \/ a.is_clean /\ ~b.is_clean
    \/ a.is_clean = b.is_clean /\ a.score > b.score

\* options[0] after the stable descending sort
BestOption(scored) ==
    LET i == CHOOSE k \in DOMAIN scored :
                 /\ \A j \in DOMAIN scored : ~SortsBefore(scored[j], scored[k])
                 /\ \A j \in 1..(k - 1) : SortsBefore(scored[k], scored[j])
    IN  scored[i]

NoAssignment == [technician_id |-> None]

\* the Assignment built from best_option
AssignmentOf(dispatch, best, fallback_level) ==
    [dispatch_id |-> dispatch.dispatch_id,
     technician_id |-> best.technician_id,
     start_datetime |-> dispatch.appointment_start_datetime,
     end_datetime |-> dispatch.appointment_end_datetime,
     success_probability |-> best.success_prob,
     distance |-> best.distance,
     priority |-> dispatch.priority,
     score |-> best.score,
     warnings |-> best.warnings,
     fallback_level |-> fallback_level]

RECURSIVE assign_dispatch(_, _, _)
\* assign_dispatch once the pre-filter result and the options are known
AssignFrom(dispatch, asg, fallback_level, pre, options) ==
    IF pre.give_up THEN NoAssignment
    ELSE IF pre.escalate
    THEN assign_dispatch(dispatch, asg, fallback_level + 1)
    ELSE IF options = <<>>
    THEN IF fallback_level < 6
         THEN assign_dispatch(dispatch, asg, fallback_level + 1)
         ELSE NoAssignment
    ELSE AssignmentOf(dispatch, BestOption(ScoredOptions(options)),
                      fallback_level)

assign_dispatch(dispatch, asg, fallback_level) ==
    AssignFrom(dispatch, asg, fallback_level,
               CandidateTechs(dispatch, fallback_level),
               OptionsOf(dispatch, asg, fallback_level))

\* (current_assignments + 1) / tech_row['workload_capacity'] divides by
\* zero for some technician of the loop
ZeroCapacityAmong(order) ==
    \E i \in DOMAIN order : technicians[order[i]].Workload_capacity = 0

RECURSIVE assign_dispatch_raises(_, _, _)
\* whether assign_dispatch raises once the pre-filter result and the
\* technicians of the loop are known
RaisesFrom(dispatch, asg, fallback_level, pre, order) ==
    IF pre.give_up THEN FALSE
    ELSE IF pre.escalate
    THEN assign_dispatch_raises(dispatch, asg, fallback_level + 1)
    ELSE IF ZeroCapacityAmong(order) THEN TRUE
    ELSE IF OptionsAmong(dispatch, order, asg, fallback_level) = <<>>
            /\ fallback_level < 6
    THEN assign_dispatch_raises(dispatch, asg, fallback_level + 1)
    ELSE FALSE

\* assign_dispatch ends with ZeroDivisionError instead of returning
assign_dispatch_raises(dispatch, asg, fallback_level) ==
    RaisesFrom(dispatch, asg, fallback_level,
               CandidateTechs(dispatch, fallback_level),
               EvaluatedOrder(dispatch,
                   CandidateTechs(dispatch, fallback_level).techs))

RECURSIVE Ladder(_, _, _)
\* the levels of the nested invocations once the pre-filter result and the
\* technicians of the loop are known: this level, then those of the
\* recursive call if there is one
LadderFrom(dispatch, asg, fallback_level, pre, order) ==
    IF pre.give_up THEN <<fallback_level>>
    ELSE IF pre.escalate
    THEN <<fallback_level>> \o Ladder(dispatch, asg, fallback_level + 1)
    ELSE IF ZeroCapacityAmong(order) THEN <<fallback_level>>
    ELSE IF OptionsAmong(dispatch, order, asg, fallback_level) = <<>>
            /\ fallback_level < 6
    THEN <<fallback_level>> \o Ladder(dispatch, asg, fallback_level + 1)
    ELSE <<fallback_level>>

\* the fallback levels assign_dispatch is invoked with, in call order
Ladder(dispatch, asg, fallback_level) ==
    LadderFrom(dispatch, asg, fallback_level,
               CandidateTechs(dispatch, fallback_level),
               EvaluatedOrder(dispatch,
                   CandidateTechs(dispatch, fallback_level).techs))

\* "Track statistics" at the end of assign_dispatch
TrackStatistics(st, assignment) ==
    IF assignment.technician_id = None THEN st
    ELSE LET w == assignment.warnings
         IN  [forced_assignments |->
                  st.forced_assignments + (IF Len(w) > 0 THEN 1 ELSE 0),
              workload_violations |->
                  st.workload_violations
                    + (IF Len(w) > 0 /\ AnyWarning(w, FallbackTexts)
                       THEN 1 ELSE 0),
              overlap_exceptions |->
                  st.overlap_exceptions
                    + (IF AnyWarning(w, ConcurrentTexts) THEN 1 ELSE 0)]

\* ------------------------------------------------------------------------
\* optimize_dispatches.py: run_optimization and run_post_optimization
\* ------------------------------------------------------------------------
\* sort_values(['priority_order', 'appointment_start_datetime']) goes before
GoesBefore(a, b) ==
    \/ PRIORITY_ORDER[a.priority] < PRIORITY_ORDER[b.priority]
    \/ /\ PRIORITY_ORDER[a.priority] = PRIORITY_ORDER[b.priority]
       /\ a.appointment_start_datetime < b.appointment_start_datetime

RECURSIVE InsertSorted(_, _)
InsertSorted(row, sorted) ==
    IF sorted = <<>> THEN <<row>>
    ELSE IF GoesBefore(row, Head(sorted))
    THEN <<row>> \o sorted
    ELSE <<Head(sorted)>> \o InsertSorted(row, Tail(sorted))

\* the table left in the order it was loaded in
Unsorted(rows) == rows

\* the table after sort_values; rows of equal key keep their order
RECURSIVE SortValues(_)
SortValues(rows) ==
    IF rows = <<>> THEN <<>>
    ELSE InsertSorted(rows[Len(rows)],
                      SortValues(SubSeq(rows, 1, Len(rows) - 1)))

DispatchRow(dispatch_id) ==
    LET i == CHOOSE k \in DOMAIN dispatches :
                 dispatches[k].dispatch_id = dispatch_id
    IN  dispatches[i]

\* the list with the entry of this dispatch kept
KeepDispatch(list, dispatch_id) == list

\* list.remove(x) / del d[key]: drop the entry of this dispatch
RemoveDispatch(list, dispatch_id) ==
    SelectSeq(list, LAMBDA a : a.dispatch_id # dispatch_id)

\* what the loop of run_optimization does with the returned assignment
CommitGreedy(assignment) ==
    /\ stats' = TrackStatistics(stats, assignment)
    /\ IF assignment.technician_id # None
       THEN /\ assignments' =
                  [assignments EXCEPT ![assignment.technician_id] =
                      Append(@, assignment)]
            /\ assignment_map' = Append(assignment_map, assignment)
       ELSE UNCHANGED <<assignments, assignment_map>>

\* one iteration of the loop of run_optimization; nothing catches an
\* exception of assign_dispatch, so it ends run_optimization and main()
GreedyStep ==
    /\ engine = "optimizer"
    /\ pc = "greedy"
    /\ idx <= Len(dispatches)
    /\ handed' = Append(handed, SortValues(dispatches)[idx].dispatch_id)
    /\ IF assign_dispatch_raises(SortValues(dispatches)[idx], assignments, 0)
       THEN /\ pc' = "aborted"
            /\ UNCHANGED <<idx, stats, assignments, assignment_map>>
       ELSE /\ CommitGreedy(assign_dispatch(SortValues(dispatches)[idx],
                                            assignments, 0))
            /\ idx' = idx + 1
            /\ pc' = pc
    /\ UNCHANGED <<inputVars, skillVars, agentVars, pass_num,
                   improvements_found,
                   pass_improvements, sampled, run_no, run_start>>

\* main() passes num_passes=3
num_passes == 3

\* entry of run_post_optimization; main() calls it once after the greedy
\* phase, and it may be called again on the state it left
RunPostOptimization ==
    /\ engine = "optimizer"
    /\ \/ pc = "greedy" /\ idx > Len(dispatches)
       \/ pc = "done" /\ run_no < MaxRuns
    /\ pc' = "pass_start"
    /\ pass_num' = 1
    /\ improvements_found' = 0
    /\ run_no' = run_no + 1
    /\ run_start' = [assignments |-> assignments,
                     assignment_map |-> assignment_map,
                     stats |-> stats]
    /\ UNCHANGED <<inputVars, skillVars, agentVars, idx, assignments,
                   assignment_map,
                   stats, pass_improvements, sampled, handed>>

\* try_pairwise_swaps: draws pairs, evaluates nothing, returns 0
try_pairwise_swaps == 0

IsProblem(assign) == Len(assign.warnings) > 0 \/ assign.score < 7000

\* all orders random.sample(other_assignments, len(other_assignments))
\* can return
Orders(list) ==
    {p \in [DOMAIN list -> DOMAIN list] :
        \A i, j \in DOMAIN list : i # j => p[i] # p[j]}

\* start of a pass: the swaps, then the sample of try_reassignments
StartPass ==
    /\ engine = "optimizer"
    /\ pc = "pass_start"
    /\ LET problem_assignments == SelectSeq(assignment_map, IsProblem)
           other_assignments ==
               SelectSeq(assignment_map, LAMBDA a : ~IsProblem(a))
       IN  \E p \in Orders(other_assignments) :
              sampled' = problem_assignments
                  \o [i \in DOMAIN other_assignments |->
                         other_assignments[p[i]]]
    /\ pass_improvements' = try_pairwise_swaps
    /\ pc' = "reassign"
    /\ UNCHANGED <<inputVars, skillVars, agentVars, idx, assignments,
                   assignment_map,
                   stats, pass_num, improvements_found, run_no, run_start,
                   handed>>

\* new_assign.score > current_assign.score + 5
MeaningfulImprovement(new_assign, current_assign) ==
    /\ new_assign.technician_id # None
    /\ new_assign.score > current_assign.score + 500

\* the lists with the sampled assignment left where it is
LeftIn(asg, current_assign) == asg

\* the assignments once the sampled one is removed
RemoveFrom(asg, current_assign) ==
    [asg EXCEPT ![current_assign.technician_id] =
        RemoveDispatch(@, current_assign.dispatch_id)]

\* the assignment try_reassignments puts back: the new one if it is a
\* meaningful improvement, else the one it removed
Chosen(current_assign, new_assign) ==
    IF MeaningfulImprovement(new_assign, current_assign)
    THEN new_assign ELSE current_assign

\* keep or revert: the chosen assignment is appended to its technician's
\* list and stored under the dispatch id
PutBack(removed, removed_map, current_assign, new_assign) ==
    [assignments |->
        [removed EXCEPT
            ![Chosen(current_assign, new_assign).technician_id] =
                Append(@, Chosen(current_assign, new_assign))],
     assignment_map |->
        Append(removed_map, Chosen(current_assign, new_assign)),
     new_assign |-> new_assign,
     improvements |->
        IF MeaningfulImprovement(new_assign, current_assign) THEN 1 ELSE 0]

\* the body of the loop of try_reassignments for one sampled entry: remove
\* the assignment, call assign_dispatch at level 0, keep or revert
Reassign(current_assign, asg, map) ==
    PutBack(RemoveFrom(asg, current_assign),
            RemoveDispatch(map, current_assign.dispatch_id),
            current_assign,
            assign_dispatch(DispatchRow(current_assign.dispatch_id),
                            RemoveFrom(asg, current_assign), 0))

\* the state after one iteration of the loop of try_reassignments
ApplyReassign(r) ==
    /\ stats' = TrackStatistics(stats, r.new_assign)
    /\ assignments' = r.assignments
    /\ assignment_map' = r.assignment_map
    /\ pass_improvements' = pass_improvements + r.improvements

\* one iteration of the loop of try_reassignments
ReassignStep ==
    /\ engine = "optimizer"
    /\ pc = "reassign"
    /\ sampled # <<>>
    /\ IF assign_dispatch_raises(DispatchRow(Head(sampled).dispatch_id),
                                 RemoveFrom(assignments, Head(sampled)), 0)
       THEN /\ pc' = "aborted"
            /\ assignments' = RemoveFrom(assignments, Head(sampled))
            /\ assignment_map' =
                  RemoveDispatch(assignment_map, Head(sampled).dispatch_id)
            /\ UNCHANGED <<stats, pass_improvements, sampled>>
       ELSE /\ ApplyReassign(Reassign(Head(sampled), assignments,
                                      assignment_map))
            /\ sampled' = Tail(sampled)
            /\ pc' = pc
    /\ UNCHANGED <<inputVars, skillVars, agentVars, idx, pass_num,
                   improvements_found, run_no, run_start, handed>>

\* the end of a pass without the early break on a pass of no improvement
EndPassWithoutBreak ==
    /\ engine = "optimizer"
    /\ pc = "reassign"
    /\ sampled = <<>>
    /\ improvements_found' = improvements_found + pass_improvements
    /\ IF pass_num = num_passes
       THEN pc' = "done" /\ pass_num' = pass_num
       ELSE pc' = "pass_start" /\ pass_num' = pass_num + 1
    /\ UNCHANGED <<inputVars, skillVars, agentVars, idx, assignments,
                   assignment_map,
                   stats, pass_improvements, sampled, run_no, run_start,
                   handed>>

\* end of a pass of run_post_optimization
EndPass ==
    /\ engine = "optimizer"
    /\ pc = "reassign"
    /\ sampled = <<>>
    /\ improvements_found' = improvements_found + pass_improvements
    /\ IF pass_improvements = 0 \/ pass_num = num_passes
       THEN pc' = "done" /\ pass_num' = pass_num
       ELSE pc' = "pass_start" /\ pass_num' = pass_num + 1
    /\ UNCHANGED <<inputVars, skillVars, agentVars, idx, assignments,
                   assignment_map,
                   stats, pass_improvements, sampled, run_no, run_start,
                   handed>>

\* ------------------------------------------------------------------------
\* Initial states
\* ------------------------------------------------------------------------
\* working day 08:00-17:00 and a short shift 08:00-10:00, in quarter hours
FullShift == [Start_time |-> 32, End_time |-> 68]
ShortShift == [Start_time |-> 32, End_time |-> 40]

\* the calendar row of a technician: none, or a row of date 1 (a dispatch
\* of date 2 finds no row of its date)
CalendarRow(tech_id, available, shift) ==
    [Technician_id |-> tech_id, Date |-> 1, Available |-> available,
     Start_time |-> shift.Start_time, End_time |-> shift.End_time]

\* calendars with at most one row per technician, all on the full shift
Calendars ==
    {c \in SUBSET {CalendarRow(t, a, FullShift) : t \in Techs, a \in {0, 1}} :
        \A r1, r2 \in c : r1.Technician_id = r2.Technician_id => r1 = r2}

\* a row of the technicians table
TechRow(state, city, skill, load) ==
    [City |-> city, State |-> state, Primary_skill |-> skill,
     Workload_capacity |-> load[1], Current_assignments |-> load[2]]

\* apply_seasonal_adjustment is not part of the run
PolicyLayerIdle ==
    /\ conditions = <<>>
    /\ season = <<>>

\* no history is being learned
SkillTableIdle ==
    /\ skill_compatibility = <<>>
    /\ skill_compatibility_dict = <<>>
    /\ skill_match_score = <<>>

\* the optimizer is not running
OptimizerIdle ==
    /\ dispatches = <<>>
    /\ predictions = <<>>
    /\ assignments = [t \in Techs |-> <<>>]
    /\ assignment_map = <<>>
    /\ stats = [forced_assignments |-> 0, overlap_exceptions |-> 0,
                workload_violations |-> 0]
    /\ pc = "agent"
    /\ pass_num = 0
    /\ improvements_found = 0
    /\ pass_improvements = 0
    /\ sampled = <<>>
    /\ run_no = 0
    /\ run_start = <<>>
    /\ handed = <<>>

\* the state of a script when its assignment loop starts
AgentStart ==
    /\ Current_assignments =
           [t \in Techs |-> technicians[t].Current_assignments]
    /\ idx = 1
    /\ optimized_ids = <<>>
    /\ last_call = <<>>
    /\ OptimizerIdle
    /\ PolicyLayerIdle
    /\ SkillTableIdle

\* technician tables that vary the calendar side (cities and skills) and
\* keep the loads apart from the capacity limits; T1 is the row of city c1
\* and skill s1 (the names of cities and skills are interchangeable)
CalendarSideTables(skills) ==
    {[t \in Techs |->
         IF t = "T1" THEN TechRow("s1", "c1", "s1", <<5, 5>>)
         ELSE TechRow("s1", c2, k2, <<1, 0>>)] :
       c2 \in Cities, k2 \in skills}

\* technician tables that vary the loads; both rows are of city c1
LoadSideTables(skills) ==
    {[t \in Techs |->
         TechRow("s1", "c1", IF t = "T1" THEN "s1" ELSE k2, load[t])] :
       load \in [Techs -> TechLoads], k2 \in skills}

BothAvailable ==
    {CalendarRow("T1", 1, FullShift), CalendarRow("T2", 1, FullShift)}

InitAgent ==
    /\ engine = "agent"
    /\ \/ /\ technicians \in CalendarSideTables({"s1"})
          /\ calendar \in Calendars
          /\ policy \in {p \in PolicyPresets : p.max_capacity_ratio = 112}
       \/ /\ technicians \in LoadSideTables({"s1"})
          /\ calendar = BothAvailable
          /\ policy \in PolicyPresets
    /\ AgentStart

InitFullyMl ==
    /\ engine = "fully_ml"
    /\ \/ /\ technicians \in CalendarSideTables(Skills)
          /\ calendar \in Calendars
          /\ policy \in {p \in MlThresholds : p.ML_CAPACITY_LIMIT = 100}
       \/ /\ technicians \in LoadSideTables(Skills)
          /\ calendar = BothAvailable
          /\ policy \in MlThresholds
    /\ AgentStart

\* DispatchOptimizer.__init__ and the start of run_optimization
OptimizerStart ==
    /\ engine = "optimizer"
    /\ policy = <<>>
    /\ Current_assignments = [t \in Techs |-> 0]
    /\ idx = 1
    /\ optimized_ids = <<>>
    /\ last_call = <<>>
    /\ assignments = [t \in Techs |-> <<>>]
    /\ assignment_map = <<>>
    /\ stats = [forced_assignments |-> 0, overlap_exceptions |-> 0,
                workload_violations |-> 0]
    /\ pc = "greedy"
    /\ pass_num = 0
    /\ improvements_found = 0
    /\ pass_improvements = 0
    /\ sampled = <<>>
    /\ run_no = 0
    /\ run_start = <<>>
    /\ handed = <<>>
    /\ PolicyLayerIdle
    /\ SkillTableIdle

\* where a technician can live relative to the dispatches (state s1, city c1)
Places == {<<"s1", "c1">>, <<"s1", "c2">>, <<"s2", "c2">>}

OptTech(place, cap) == TechRow(place[1], place[2], "s1", <<cap, 0>>)

\* appointment windows of date `date`: 09:00-10:00, 09:30-10:30, 10:15-11:15
Windows == {<<36, 40>>, <<38, 42>>, <<41, 45>>}

OptDispatch(id, priority, date, window) ==
    [dispatch_id |-> id, priority |-> priority, state |-> "s1",
     city |-> "c1",
     appointment_start_datetime |-> date * 96 + window[1],
     appointment_end_datetime |-> date * 96 + window[2]]

Pred(success_prob, distance) ==
    [success_prob |-> success_prob, distance |-> distance, overrun |-> 0]

\* inputs that exercise the hard filters: where the technicians live, what
\* their calendar rows say, how far they are and the dates of the dispatches;
\* every dispatch is Normal and asks for 09:00-10:00
InitOptimizerHard ==
    /\ OptimizerStart
    /\ \E p \in [Techs -> Places] :
         technicians = [t \in Techs |-> OptTech(p[t], 1)]
    /\ calendar \in Calendars
    /\ \E date \in [1..NumDispatches -> Dates] :
         dispatches = [i \in 1..NumDispatches |->
             OptDispatch(i, "Normal", date[i], <<36, 40>>)]
    /\ \E dist \in [Techs -> DistVals] :
         predictions = [i \in 1..NumDispatches |->
             [t \in Techs |-> Pred(60, dist[t])]]

\* inputs that exercise the soft constraints: priorities, windows, shifts,
\* capacities and the predictor; every technician is on the calendar
InitOptimizerSoft ==
    /\ OptimizerStart
    /\ \E cap1 \in {1, 5} :
         technicians = [t \in Techs |->
             OptTech(<<"s1", "c1">>, IF t = "T1" THEN cap1 ELSE 5)]
    /\ \E shift2 \in {FullShift, ShortShift} :
         calendar = {CalendarRow("T1", 1, FullShift),
                     CalendarRow("T2", 1, shift2)}
    /\ \E prio \in [1..NumDispatches -> {"Critical", "Normal"}],
          win \in [1..NumDispatches -> Windows] :
         dispatches = [i \in 1..NumDispatches |->
             OptDispatch(i, prio[i], 1, win[i])]
    /\ \E s2 \in [1..NumDispatches -> {40, 90}] :
         predictions = [i \in 1..NumDispatches |->
             [t \in Techs |->
                 IF t = "T1" THEN Pred(60, 10) ELSE Pred(s2[i], 20)]]

\* inputs in which two Normal dispatches (2 and 3) sit on T1 because the
\* Critical dispatch 1 holds the technician the predictor prefers for them,
\* T2, and a last dispatch (4) is then squeezed in beside them on T1
InitOptimizerContended ==
    /\ OptimizerStart
    /\ \E cap2 \in {3, 5} :
         technicians = [t \in Techs |->
             OptTech(<<"s1", "c1">>, IF t = "T1" THEN 5 ELSE cap2)]
    /\ calendar = BothAvailable
    /\ \E late \in {<<40, 44>>, <<41, 45>>}, last \in {"Normal", "Low"} :
         dispatches = <<OptDispatch(1, "Critical", 1, <<38, 42>>),
                        OptDispatch(2, "Normal", 1, <<36, 40>>),
                        OptDispatch(3, "Normal", 1, late),
                        OptDispatch(4, last, 1, <<38, 42>>)>>
    /\ \E s2 \in {40, 80, 90} :
         predictions = [i \in 1..4 |->
             [t \in Techs |->
                 IF t = "T1" THEN Pred(70, 10)
                 ELSE Pred(IF i = 4 THEN 40 ELSE s2, 10)]]

\* inputs in which a pass of try_reassignments opens the way for the next:
\* the Critical dispatch 1 holds T2, dispatch 2 goes to T1 and dispatch 3 is
\* squeezed in beside it on T1 (T2 is far away and unpromising for it);
\* once a pass moves dispatch 2 to T2, a later retry of dispatch 3 finds T1
\* empty
InitOptimizerChained ==
    /\ OptimizerStart
    /\ \E cap1 \in {2, 5} :
         technicians = [t \in Techs |->
             OptTech(<<"s1", "c1">>, IF t = "T1" THEN cap1 ELSE 5)]
    /\ calendar = BothAvailable
    /\ \E last \in {"Normal", "Low"} :
         dispatches = <<OptDispatch(1, "Critical", 1, <<38, 42>>),
                        OptDispatch(2, "Normal", 1, <<36, 40>>),
                        OptDispatch(3, last, 1, <<38, 42>>)>>
    /\ \E s2 \in {80, 90} :
         predictions = [i \in 1..3 |->
             [t \in Techs |->
                 IF t = "T1" THEN Pred(70, 10)
                 ELSE IF i = 3 THEN Pred(10, 250) ELSE Pred(s2, 10)]]

\* inputs in which the two technicians can score the same for a dispatch:
\* T1, the first row, promises 0.70 and T2 0.60 or 0.70; T1 is 10 or 20 km
\* away and T2 10 km (0.70 at 20 km and 0.60 at 10 km both score 75.0)
InitOptimizerTie ==
    /\ OptimizerStart
    /\ technicians = [t \in Techs |-> OptTech(<<"s1", "c1">>, 5)]
    /\ calendar = BothAvailable
    /\ \E prio \in {"Critical", "Normal"}, win \in Windows :
         dispatches = <<OptDispatch(1, "Normal", 1, <<36, 40>>),
                        OptDispatch(2, prio, 1, win)>>
    /\ \E distance1 \in {10, 20}, s2 \in {60, 70} :
         predictions = [i \in 1..2 |->
             [t \in Techs |->
                 IF t = "T1" THEN Pred(70, distance1) ELSE Pred(s2, 10)]]

\* the orders INTELLIGENT_AUTO_CONFIG['priority_order'] can be set to
PriorityOrders ==
    {o \in [1..3 -> {"demand", "availability", "time"}] :
        \A i, j \in 1..3 : i # j => o[i] # o[j]}

\* dispatch counts around the two demand thresholds (400 and 750), or none
\* when the dispatches file could not be read
DispatchCounts == {NoCount, 300, 400, 600, 750, 800}
\* technician counts around the two availability thresholds (20 and 50)
TechCounts == {NoCount, 0, 10, 19, 20, 50, 51}
\* an hour of the night and one of each part of the day
Hours == {3, 8, 14, 19}
\* a month of the low, the normal and the peak season
Months == {1, 6, 11}

\* the policy layer before apply_seasonal_adjustment is called: the
\* thresholds are the base values MIN_SUCCESS_THRESHOLD = 0.27 and
\* MAX_CAPACITY_RATIO = 1.12
InitPolicyLayer ==
    /\ engine = "policy_layer"
    /\ policy = Preset(27, 112)
    /\ conditions \in [dispatch_count : DispatchCounts,
                       available_tech_count : TechCounts,
                       current_hour : Hours,
                       current_month : Months,
                       priority_order : PriorityOrders]
    /\ season = <<>>
    /\ technicians = [t \in Techs |-> TechRow("s1", "c1", "s1", <<1, 0>>)]
    /\ calendar = {}
    /\ Current_assignments = [t \in Techs |-> 0]
    /\ idx = 1
    /\ optimized_ids = <<>>
    /\ last_call = <<>>
    /\ OptimizerIdle
    /\ SkillTableIdle

\* (success_count, total_count) of a group of history rows; a group whose
\* targets are all missing has count 0
Samples == {<<0, 0>>, <<1, 2>>, <<0, 3>>, <<1, 3>>, <<3, 3>>}

\* no history row has the pair
Absent == <<0, 0 - 1>>

\* the row of skill_compatibility for a pair, none when history has no row
\* of the pair
GroupRow(req_skill, tech_skill, sample) ==
    IF sample = Absent THEN <<>>
    ELSE <<[Required_skill |-> req_skill, Tech_skill |-> tech_skill,
            success_count |-> sample[1], total_count |-> sample[2]]>>

\* the training part of dispatch_agent.py: the grouped table, in the key
\* order of groupby, over the pairs (s1, s1), (s1, s2), (s2, s2), (s3, s1)
\* and (s3, s2); the pairs (s1, s3) and (s2, s1) have no history
InitSkillTable ==
    /\ engine = "training"
    /\ policy = Preset(27, 112)
    /\ technicians = [t \in Techs |-> TechRow("s1", "c1", "s1", <<1, 0>>)]
    /\ calendar = {}
    /\ Current_assignments = [t \in Techs |-> 0]
    /\ idx = 1
    /\ optimized_ids = <<>>
    /\ last_call = <<>>
    /\ OptimizerIdle
    /\ PolicyLayerIdle
    /\ \E s11 \in Samples \cup {Absent} :
         \E s12 \in (Samples \ {<<0, 0>>}) \cup {Absent} :
           \E s22 \in {<<3, 3>>, Absent} :
             \E s31 \in {<<1, 2>>, <<1, 3>>, <<3, 3>>, Absent} :
               \E s32 \in {<<0, 3>>, <<3, 3>>, Absent} :
                 skill_compatibility =
                    GroupRow("s1", "s1", s11) \o GroupRow("s1", "s2", s12)
                      \o GroupRow("s2", "s2", s22)
                      \o GroupRow("s3", "s1", s31)
                      \o GroupRow("s3", "s2", s32)
    /\ skill_compatibility_dict = <<>>
    /\ skill_match_score = <<>>

\* inputs with a technician row of Workload_capacity 0: T1, of city c1;
\* T2 has capacity 5; the dispatches are Normal, one hour each, 90 minutes
\* apart
InitOptimizerZeroCapacity ==
    /\ OptimizerStart
    /\ \E city2 \in Cities :
         technicians = [t \in Techs |->
             IF t = "T1" THEN OptTech(<<"s1", "c1">>, 0)
             ELSE OptTech(<<"s1", city2>>, 5)]
    /\ \E available1 \in {0, 1} :
         calendar = {CalendarRow("T1", available1, FullShift),
                     CalendarRow("T2", 1, FullShift)}
    /\ \E city \in [1..NumDispatches -> Cities] :
         dispatches = [i \in 1..NumDispatches |->
             [OptDispatch(i, "Normal", 1, <<30 + 6 * i, 34 + 6 * i>>)
                 EXCEPT !.city = city[i]]]
    /\ predictions = [i \in 1..NumDispatches |->
           [t \in Techs |-> Pred(60, 10)]]

Priorities == {"Critical", "High", "Normal", "Low"}

\* hour-long windows of date 1 that are 30 minutes apart, the first one
\* 08:30-09:30
SpacedWindow(i) == <<28 + 6 * i, 32 + 6 * i>>

\* the calendar rows a technician has who is not available on date 1
OffCalendar(tech_id) == {{}, {CalendarRow(tech_id, 0, FullShift)}}

\* inputs in which T1 is the only technician on the calendar, lives in the
\* city of the dispatches and has room for all of them; the windows lie in
\* the shift, 30 minutes apart, and the priorities decide the order
InitOptimizerStrict ==
    /\ OptimizerStart
    /\ \E cap1 \in {NumDispatches + 1, NumDispatches + 3} :
         technicians = [t \in Techs |->
             OptTech(<<"s1", "c1">>, IF t = "T1" THEN cap1 ELSE 5)]
    /\ \E off \in OffCalendar("T2") :
         calendar = {CalendarRow("T1", 1, FullShift)} \cup off
    /\ \E prio \in [1..(NumDispatches + 1) -> Priorities] :
         dispatches = [i \in 1..(NumDispatches + 1) |->
             OptDispatch(i, prio[i], 1, SpacedWindow(i))]
    /\ predictions = [i \in 1..(NumDispatches + 1) |->
           [t \in Techs |-> Pred(40, 10)]]

\* a capacity for which one assignment beyond 100% is a ratio of 1.10
RescueCapacity == 10

\* quarter-hour windows of date 1, 30 minutes apart, the first one at 08:00
ShortWindow(i) == <<29 + 3 * i, 30 + 3 * i>>

\* inputs in which T1, the only technician on the calendar, is filled to
\* 100% of its capacity by Critical dispatches before a last dispatch of any
\* priority arrives
InitOptimizerRescue ==
    /\ OptimizerStart
    /\ technicians = [t \in Techs |->
           OptTech(<<"s1", "c1">>, IF t = "T1" THEN RescueCapacity ELSE 5)]
    /\ \E off \in OffCalendar("T2") :
         calendar = {CalendarRow("T1", 1, FullShift)} \cup off
    /\ \E last \in Priorities :
         dispatches = [i \in 1..(RescueCapacity + 1) |->
             OptDispatch(i, IF i <= RescueCapacity THEN "Critical" ELSE last,
                         1, ShortWindow(i))]
    /\ predictions = [i \in 1..(RescueCapacity + 1) |->
           [t \in Techs |-> Pred(40, 10)]]

\* inputs in which T1, the only technician on the calendar, is asked for
\* the same hour 09:00-10:00 by three dispatches before a last dispatch
\* arrives
InitOptimizerStacked ==
    /\ OptimizerStart
    /\ \E cap1 \in {3, 10} :
         technicians = [t \in Techs |->
             OptTech(<<"s1", "c1">>, IF t = "T1" THEN cap1 ELSE 5)]
    /\ \E off \in OffCalendar("T2") :
         calendar = {CalendarRow("T1", 1, FullShift)} \cup off
    /\ \E last \in {"Critical", "Normal"}, win \in Windows :
         dispatches = [i \in 1..4 |->
             IF i <= 3 THEN OptDispatch(i, "Normal", 1, <<36, 40>>)
             ELSE OptDispatch(i, last, 1, win)]
    /\ predictions = [i \in 1..4 |-> [t \in Techs |-> Pred(60, 10)]]

Init ==
    \/ InitAgent
    \/ InitFullyMl
    \/ InitOptimizerHard
    \/ InitOptimizerSoft
    \/ InitOptimizerContended
    \/ InitOptimizerChained
    \/ InitOptimizerTie
    \/ InitPolicyLayer
    \/ InitSkillTable
    \/ InitOptimizerZeroCapacity
    \/ InitOptimizerStrict
    \/ InitOptimizerRescue
    \/ InitOptimizerStacked

Next ==
    \/ AssignmentLoopStep
    \/ AssignmentLoopStepMl
    \/ GreedyStep
    \/ RunPostOptimization
    \/ StartPass
    \/ ReassignStep
    \/ EndPass
    \/ apply_seasonal_adjustment
    \/ LearnSkillPair
    \/ ScoreSkillMatch

Spec == Init /\ [][Next]_vars

\* optimize_dispatches.py alone, on the inputs that make post-optimization
\* work; main() is a sequential program: a step that can be taken is taken
OptimizerInit ==
    \/ InitOptimizerContended
    \/ InitOptimizerChained
    \/ InitOptimizerZeroCapacity

OptimizerNext ==
    \/ GreedyStep
    \/ RunPostOptimization
    \/ StartPass
    \/ ReassignStep
    \/ EndPass

\* the loop of run_optimization has a row left
GreedyReady ==
    engine = "optimizer" /\ pc = "greedy" /\ idx <= Len(dispatches)

\* the loop of try_reassignments has an entry left
ReassignReady ==
    engine = "optimizer" /\ pc = "reassign" /\ sampled # <<>>

\* weak fairness of every step; for the two loop bodies the enabling
\* condition is written out (the body can always be taken once the loop
\* has an element left)
OptimizerFairSpec ==
    /\ OptimizerInit
    /\ [][OptimizerNext]_vars
    /\ WF_vars(RunPostOptimization)
    /\ WF_vars(StartPass)
    /\ WF_vars(EndPass)
    /\ ([]<>(~GreedyReady) \/ []<><<GreedyStep>>_vars)
    /\ ([]<>(~ReassignReady) \/ []<><<ReassignStep>>_vars)

\* ------------------------------------------------------------------------
\* Properties
\* ------------------------------------------------------------------------
\* the calendar table holds an Available = 1 row of the technician and date
OnCalendar(tech_id, date) ==
    \E c \in calendar : /\ c.Technician_id = tech_id
                        /\ c.Date = date
                        /\ c.Available = 1

\* an agent loop has run its body at least once
Called == engine \in {"agent", "fully_ml"} /\ optimized_ids # <<>>

\* the optimizer has finished run_post_optimization
PostOptimized == engine = "optimizer" /\ pc = "done"

\* the dispatches run_optimization has already walked
Walked == IF engine = "optimizer"
          THEN {SortValues(dispatches)[i].dispatch_id :
                    i \in 1..(idx - 1)}
          ELSE {}

IsAssigned(dispatch_id) ==
    \E i \in DOMAIN assignment_map :
        assignment_map[i].dispatch_id = dispatch_id

\* C1: calendar availability is never relaxed: in every engine and at every
\* fallback level each committed assignment goes to a technician that has
\* an Available = 1 calendar row for the date of the dispatch, and a
\* dispatch for whose date no technician has such a row stays unassigned
CalendarNeverRelaxed ==
    /\ \A i \in DOMAIN assignment_map :
         OnCalendar(assignment_map[i].technician_id,
                    DateOf(assignment_map[i].start_datetime))
    /\ \A t \in Techs : \A i \in DOMAIN assignments[t] :
         /\ assignments[t][i].technician_id = t
         /\ OnCalendar(t, DateOf(assignments[t][i].start_datetime))
    /\ \A d \in Walked :
         (\A t \in Techs :
             ~OnCalendar(t,
                 DateOf(DispatchRow(d).appointment_start_datetime)))
           => ~IsAssigned(d)
    /\ Called /\ last_call.tech # None
         => OnCalendar(last_call.tech, last_call.date)

\* C1 witness: post-optimization has finished with an assignment forced at
\* level 6 onto the only technician on the calendar while another
\* technician of the dispatch's state has an Available = 0 row for the date
CalendarHeldUnderForce ==
    /\ PostOptimized
    /\ \E i \in DOMAIN assignment_map :
         /\ assignment_map[i].fallback_level = 6
         /\ \E t \in Techs, c \in calendar :
              /\ t # assignment_map[i].technician_id
              /\ technicians[t].State = "s1"
              /\ c.Technician_id = t
              /\ c.Date = DateOf(assignment_map[i].start_datetime)
              /\ c.Available = 0

\* C2: every assignment emitted by assign_technician, assign_technician_ml
\* and assign_dispatch has a distance of at most MAX_ACCEPTABLE_DISTANCE
DistanceWithinCap ==
    /\ \A i \in DOMAIN assignment_map :
         assignment_map[i].distance <= MAX_ACCEPTABLE_DISTANCE
    /\ Called /\ last_call.tech # None
         => last_call.distance <= MAX_ACCEPTABLE_DISTANCE

\* C3: counter conservation in the greedy loops: a call that returns a
\* technician adds exactly 1 to that technician's Current_assignments and
\* to no other, a call that returns none changes no counter, and so the sum
\* of (current - initial) equals the number of non-null optimized ids
CountersConserved ==
    engine \in {"agent", "fully_ml"} =>
      /\ \A t \in Techs :
           Current_assignments[t] =
               technicians[t].Current_assignments + CountOf(optimized_ids, t)
      /\ SumOver(Techs, Current_assignments)
           - SumOver(Techs,
                 [t \in Techs |-> technicians[t].Current_assignments])
           = Len(optimized_ids) - CountOf(optimized_ids, None)
      /\ Called =>
           /\ last_call.tech = optimized_ids[Len(optimized_ids)]
           /\ \A t \in Techs :
                Current_assignments[t] =
                    last_call.before[t]
                      + (IF t = last_call.tech THEN 1 ELSE 0)

\* C3 witness: the loop is over, one call returned a technician and another
\* returned none
LoopCountedBoth ==
    /\ engine \in {"agent", "fully_ml"}
    /\ idx > NumAgentDispatches
    /\ \E i, j \in DOMAIN optimized_ids :
         optimized_ids[i] \in Techs /\ optimized_ids[j] = None
    /\ last_call.fallback_level = "error"

\* a run is complete: the agent loop is over, or main() of the optimizer
\* has run both phases
RunComplete ==
    \/ engine \in {"agent", "fully_ml"} /\ idx > NumAgentDispatches
    \/ PostOptimized

\* the number of assignments a technician holds
Held(t) ==
    IF engine = "optimizer" THEN Len(assignments[t])
    ELSE Current_assignments[t]

\* C4: after a complete run whose technicians all started at or below 120%
\* of capacity, no technician holds more than 1.20 times its capacity
WithinHardCapacity ==
    (/\ RunComplete
     /\ \A t \in Techs :
          technicians[t].Current_assignments * 100
            <= 120 * technicians[t].Workload_capacity)
      => \A t \in Techs :
           Held(t) * 100 <= 120 * technicians[t].Workload_capacity

\* the warning a forced concurrent assignment carries
ForcedConcurrencyTexts == {"FALLBACK: Allowing 3 concurrent appointments"}

\* C5: in the optimizer no two assignments of one technician overlap in
\* time (zero buffer) unless both carry a forced-concurrency warning and
\* were made at fallback level 3 or higher
NoOverlapUnlessForced ==
    \A t \in Techs : \A i, j \in DOMAIN assignments[t] :
        LET a == assignments[t][i]
            b == assignments[t][j]
        IN  (i # j /\ a.start_datetime < b.end_datetime
                   /\ b.start_datetime < a.end_datetime)
              => /\ AnyWarning(a.warnings, ForcedConcurrencyTexts)
                 /\ AnyWarning(b.warnings, ForcedConcurrencyTexts)
                 /\ a.fallback_level >= 3
                 /\ b.fallback_level >= 3

\* C8: forced assignment completes whenever the calendar permits: a
\* dispatch run_optimization has walked is assigned if some technician has
\* an Available = 1 row for its date
ForcedAssignmentCompletes ==
    \A d \in Walked :
        (\E t \in Techs :
            OnCalendar(t, DateOf(DispatchRow(d).appointment_start_datetime)))
          => IsAssigned(d)

\* C9: a technician is a candidate of assign_technician only with
\* Current_assignments / Workload_capacity strictly below MAX_CAPACITY_RATIO,
\* and after a successful step the chosen technician has
\* Current_assignments <= Workload_capacity * MAX_CAPACITY_RATIO
CapacityRatioHeld ==
    (engine = "agent" /\ Called /\ last_call.tech # None)
      => /\ \A t \in last_call.candidates :
              last_call.before[t] * 100
                < policy.max_capacity_ratio
                    * technicians[t].Workload_capacity
         /\ Current_assignments[last_call.tech] * 100
              <= policy.max_capacity_ratio
                   * technicians[last_call.tech].Workload_capacity

\* C10: a technician returned by assign_technician has a predicted success
\* probability of at least MIN_SUCCESS_THRESHOLD, and a call none of whose
\* candidates reaches the threshold returns no technician, reports the
\* below-threshold reason and changes no counter
SuccessThresholdHeld ==
    (engine = "agent" /\ Called) =>
      /\ last_call.tech # None
           => /\ last_call.prob >= policy.min_success_threshold
              /\ last_call.best_prob >= policy.min_success_threshold
      /\ (/\ last_call.fallback_level # "error"
          /\ last_call.candidates # {}
          /\ last_call.best_prob < policy.min_success_threshold)
           => /\ last_call.tech = None
              /\ last_call.fallback_level = "ml_below_threshold"
              /\ Current_assignments = last_call.before

\* C10 witness: a call whose candidates all stayed below the threshold
BelowThresholdLeftUnassigned ==
    /\ engine = "agent"
    /\ Called
    /\ last_call.candidates # {}
    /\ last_call.best_prob < policy.min_success_threshold
    /\ last_call.fallback_level = "ml_below_threshold"
    /\ \E i \in DOMAIN optimized_ids : optimized_ids[i] \in Techs

\* the entries of a list, whatever their order
EntriesOf(list) == {list[i] : i \in DOMAIN list}

\* C7: post-optimization is idempotent: run_post_optimization called on the
\* state a previous call left reports zero improvements and leaves
\* assignment_map, the per-technician lists and the stats counters as they
\* were when it started
PostOptimizationIdempotent ==
    (PostOptimized /\ run_no >= 2) =>
      /\ improvements_found = 0
      /\ EntriesOf(assignment_map) = EntriesOf(run_start.assignment_map)
      /\ \A t \in Techs :
           EntriesOf(assignments[t]) = EntriesOf(run_start.assignments[t])
      /\ stats = run_start.stats

\* the result of a reassignment with `n` more improvements counted
Counting(r, n) == [r EXCEPT !.improvements = @ + n]

\* try_reassignments on the entries `todo`, in that order
RECURSIVE ReassignInOrder(_, _, _)
\* the rest of the loop once the first entry has been tried
ReassignRest(todo, r) ==
    Counting(ReassignInOrder(Tail(todo), r.assignments, r.assignment_map),
             r.improvements)

ReassignInOrder(todo, asg, map) ==
    IF todo = <<>>
    THEN [assignments |-> asg, assignment_map |-> map, improvements |-> 0]
    ELSE ReassignRest(todo, Reassign(Head(todo), asg, map))

\* the sample in dict order: the problem assignments, then the others
DictOrder(map) ==
    SelectSeq(map, IsProblem) \o SelectSeq(map, LAMBDA a : ~IsProblem(a))

\* run_post_optimization from pass `pass` on, every sample in dict order
RECURSIVE PassesInOrder(_, _, _)
\* the passes after a pass that ended with result r
PassesAfter(pass, r) ==
    IF r.improvements = 0 \/ pass = num_passes THEN r
    ELSE PassesInOrder(pass + 1, r.assignments, r.assignment_map)

PassesInOrder(pass, asg, map) ==
    PassesAfter(pass, ReassignInOrder(DictOrder(map), asg, map))

\* C6: determinism: the assignment table (dispatch-to-technician map,
\* scores, warnings) main() ends with is the same whatever order
\* random.sample returns inside try_reassignments: every run ends with the
\* table of the run that samples in dict order
SamplingOrderIrrelevant ==
    (PostOptimized /\ run_no = 1) =>
      EntriesOf(assignment_map) =
          EntriesOf(PassesInOrder(1, run_start.assignments,
                                  run_start.assignment_map).assignment_map)
\* apply_seasonal_adjustment has run
PolicyChosen == engine = "policy_layer" /\ season # <<>>

PlaceIn(priority_order, name) ==
    CHOOSE i \in DOMAIN priority_order : priority_order[i] = name

\* the factors of the conditions that have a config and a score above 5
Eligible ==
    {f \in {Factors(conditions)[i] : i \in 1..3} :
        f.config # NoConfig /\ f.score > 5}

FailureDoesNotAbort ==
    /\ (Called /\ last_call.fallback_level = "error")
         => /\ last_call.tech = None
            /\ optimized_ids[Len(optimized_ids)] = None
            /\ Current_assignments = last_call.before
            /\ idx = Len(optimized_ids) + 1
    /\ engine = "optimizer" => pc # "aborted"

\* the greedy phase of the optimizer is running or has just ended: the list
\* of every technician is in the order in which run_optimization appended
Greedy == engine = "optimizer" /\ pc = "greedy"

\* the texts of the workload rule and of its relaxation
WorkloadTexts ==
    {"Workload would exceed 100%", "Workload would exceed 120%",
     "Workload would be over 100%", "FALLBACK: Allowing 110% workload"}

\* technician t is the only one with an Available = 1 row for date 1
OnlyOnCalendar(t) ==
    /\ OnCalendar(t, 1)
    /\ \A u \in Techs \ {t} : ~OnCalendar(u, 1)

\* C12: overcapacity rescue happens at level 5: when the only
\* calendar-available technician is at 100% of its capacity, one more
\* assignment is a ratio of at most 1.10 and nothing but the workload stands
\* in the way, the assignment of a dispatch of any priority is made at
\* fallback level 5 and carries 'FALLBACK: Allowing 110% workload'
RescuedAtLevelFive ==
    Greedy =>
      \A t \in Techs :
        LET cap == technicians[t].Workload_capacity
        IN  (/\ OnlyOnCalendar(t)
             /\ cap > 0
             /\ (cap + 1) * 10 <= cap * 11
             /\ Len(assignments[t]) > cap
             /\ Without(assignments[t][cap + 1].warnings, WorkloadTexts)
                  = <<>>)
              => /\ assignments[t][cap + 1].fallback_level = 5
                 /\ AnyWarning(assignments[t][cap + 1].warnings, Texts110)

\* the shift of the Available = 1 calendar row of a technician and date
ShiftOf(t, date) ==
    CHOOSE c \in calendar : /\ c.Technician_id = t
                            /\ c.Date = date
                            /\ c.Available = 1

\* two windows are at least 30 minutes apart
Apart(a_start, a_end, b_start, b_end) ==
    a_start >= b_end + 2 \/ b_start >= a_end + 2

\* the inputs of the strict case: every dispatch is of date 1 and of the
\* city and state of technician t, which is the only technician on the
\* calendar and has capacity for all of them; the windows lie in its shift
\* and are pairwise 30 minutes apart
StrictCase(t) ==
    /\ engine = "optimizer"
    /\ dispatches # <<>>
    /\ OnlyOnCalendar(t)
    /\ technicians[t].Workload_capacity >= Len(dispatches)
    /\ \A i \in DOMAIN dispatches :
         /\ DateOf(dispatches[i].appointment_start_datetime) = 1
         /\ DateOf(dispatches[i].appointment_end_datetime) = 1
         /\ dispatches[i].city = technicians[t].City
         /\ dispatches[i].state = technicians[t].State
         /\ TimeOf(dispatches[i].appointment_start_datetime)
              >= ShiftOf(t, 1).Start_time
         /\ TimeOf(dispatches[i].appointment_end_datetime)
              <= ShiftOf(t, 1).End_time
    /\ \A i, j \in DOMAIN dispatches :
         i # j => Apart(dispatches[i].appointment_start_datetime,
                        dispatches[i].appointment_end_datetime,
                        dispatches[j].appointment_start_datetime,
                        dispatches[j].appointment_end_datetime)

\* C13: strict-level success: in the strict case every dispatch handed to
\* assign_dispatch is assigned to the technician at fallback level 0 without
\* warnings, whatever order the priorities induce, and once every dispatch
\* has been walked the technician holds as many assignments as there are
\* dispatches
StrictLevelSuccess ==
    \A t \in Techs :
      StrictCase(t) =>
        /\ Len(assignments[t]) = Len(handed)
        /\ Len(assignment_map) = Len(handed)
        /\ \A i \in DOMAIN assignment_map :
             /\ assignment_map[i].technician_id = t
             /\ assignment_map[i].fallback_level = 0
             /\ assignment_map[i].warnings = <<>>
        /\ idx > Len(dispatches)
             => Len(assignments[t]) = Len(dispatches)

\* C13 witness: a strict case of at least three dispatches, walked in an
\* order other than that of the table, has gone through post-optimization
StrictRunFinished ==
    /\ PostOptimized
    /\ StrictCase("T1")
    /\ Len(dispatches) >= 3
    /\ handed # [i \in DOMAIN dispatches |-> dispatches[i].dispatch_id]
    /\ Len(assignments["T1"]) = Len(dispatches)

\* C17: greedy processing order: run_optimization hands the dispatches to
\* assign_dispatch in non-decreasing (priority rank, appointment start)
\* order with Critical < High < Normal < Low: none is handed over after one
\* of strictly lower priority, nor after one of its own priority that
\* starts strictly later
GreedyOrderRespected ==
    engine = "optimizer" =>
      \A i, j \in DOMAIN handed :
        i < j =>
          LET a == DispatchRow(handed[i])
              b == DispatchRow(handed[j])
          IN  \/ PRIORITY_ORDER[a.priority] < PRIORITY_ORDER[b.priority]
              \/ /\ a.priority = b.priority
                 /\ a.appointment_start_datetime
                      <= b.appointment_start_datetime

\* C17 witness: every dispatch of a table of at least three rows has been
\* handed over, the first one handed over is the last row of the table and a
\* High dispatch went before a Normal one
WalkedOutOfTableOrder ==
    /\ engine = "optimizer"
    /\ Len(dispatches) >= 3
    /\ Len(handed) = Len(dispatches)
    /\ handed[1] = dispatches[Len(dispatches)].dispatch_id
    /\ \E i, j \in DOMAIN handed :
         /\ i < j
         /\ DispatchRow(handed[i]).priority = "High"
         /\ DispatchRow(handed[j]).priority = "Normal"

\* C18: level-0 assignments are strict: an assignment made at fallback
\* level 0 goes to a technician of the dispatch's city, is 30 minutes apart
\* from every assignment the technician already had, lies inside the
\* technician's shift and leaves the workload ratio at or below 1.0
LevelZeroStrict ==
    Greedy =>
      \A t \in Techs : \A i \in DOMAIN assignments[t] :
        LET a == assignments[t][i]
        IN  a.fallback_level = 0 =>
              /\ technicians[t].City = DispatchRow(a.dispatch_id).city
              /\ \A j \in 1..(i - 1) :
                   Apart(a.start_datetime, a.end_datetime,
                         assignments[t][j].start_datetime,
                         assignments[t][j].end_datetime)
              /\ TimeOf(a.start_datetime)
                   >= ShiftOf(t, DateOf(a.start_datetime)).Start_time
              /\ TimeOf(a.end_datetime)
                   <= ShiftOf(t, DateOf(a.start_datetime)).End_time
              /\ Cardinality({j \in 1..(i - 1) :
                     /\ a.start_datetime < assignments[t][j].end_datetime
                     /\ a.end_datetime > assignments[t][j].start_datetime})
                   < 2
              /\ i <= technicians[t].Workload_capacity

\* the assignment try_reassignments gets for the entry it tries next
Retried ==
    assign_dispatch(DispatchRow(Head(sampled).dispatch_id),
                    RemoveFrom(assignments, Head(sampled)), 0)

\* C20: reassignment acceptance: for each entry tried by try_reassignments
\* the new assignment replaces the old one exactly when new.score >=
\* old.score + 5, and otherwise the original assignment is put back with
\* its technician, score and warnings; so the score of the dispatch never
\* decreases
ReassignmentAcceptance ==
    [][(/\ engine = "optimizer"
        /\ pc = "reassign"
        /\ sampled # <<>>
        /\ pc' = "reassign")
         => /\ IF /\ Retried.technician_id # None
                  /\ Retried.score >= Head(sampled).score + 500
               THEN assignment_map'[Len(assignment_map')] = Retried
               ELSE assignment_map'[Len(assignment_map')] = Head(sampled)
            /\ assignment_map'[Len(assignment_map')].score
                 >= Head(sampled).score]_vars

\* the loop over skill_compatibility has filled the table
TableLearned ==
    /\ engine = "training"
    /\ Len(skill_compatibility_dict) = Len(skill_compatibility)

\* the rows history has for a pair
GroupOf(req_skill, tech_skill) ==
    SelectSeq(skill_compatibility,
              LAMBDA r : /\ r.Required_skill = req_skill
                         /\ r.Tech_skill = tech_skill)

\* the number of samples history has for a pair
SamplesOf(req_skill, tech_skill) ==
    IF GroupOf(req_skill, tech_skill) = <<>> THEN 0
    ELSE Head(GroupOf(req_skill, tech_skill)).total_count

\* the successes history has for a pair
SuccessesOf(req_skill, tech_skill) ==
    IF GroupOf(req_skill, tech_skill) = <<>> THEN 0
    ELSE Head(GroupOf(req_skill, tech_skill)).success_count

\* the historical success rate of (req, a) is strictly higher than that of
\* (req, b); both pairs have samples
HigherRate(req_skill, a, b) ==
    SuccessesOf(req_skill, a) * SamplesOf(req_skill, b)
      > SuccessesOf(req_skill, b) * SamplesOf(req_skill, a)

\* C15: skill score range and monotonicity: calculate_skill_match_score
\* returns a value in [0, 1]; for a fixed required skill a non-exact pair
\* with at least 3 samples never scores lower than a pair with fewer than 3
\* samples, and of two pairs with at least 3 samples the one with the
\* strictly higher historical success rate never scores lower
SkillScoreMonotone ==
    TableLearned =>
      /\ \A r \in HistorySkills \cup {NaN} :
           \A t \in HistorySkills \cup {NaN} :
             calculate_skill_match_score(r, t) \in 0..1000
      /\ \A r \in HistorySkills : \A a \in HistorySkills \ {r} :
           \A b \in HistorySkills :
             (SamplesOf(r, a) >= 3 /\ SamplesOf(r, b) < 3)
               => calculate_skill_match_score(r, a)
                    >= calculate_skill_match_score(r, b)
      /\ \A r \in HistorySkills : \A a \in HistorySkills :
           \A b \in HistorySkills :
             (/\ SamplesOf(r, a) >= 3
              /\ SamplesOf(r, b) >= 3
              /\ HigherRate(r, a, b))
               => calculate_skill_match_score(r, a)
                    >= calculate_skill_match_score(r, b)

\* C16: for every skill s that is not missing calculate_skill_match_score(s,
\* s) returns exactly 1.0 whatever count and success rate history has for
\* the pair (s, s), and the learned table stores the score 1.0 under every
\* exact-match pair
ExactMatchScoresOne ==
    engine = "training" =>
      /\ \A i \in DOMAIN skill_compatibility_dict :
           skill_compatibility_dict[i].Required_skill
               = skill_compatibility_dict[i].Tech_skill
             => skill_compatibility_dict[i].score = 1000
      /\ \A s \in HistorySkills : calculate_skill_match_score(s, s) = 1000
      /\ (/\ skill_match_score # <<>>
          /\ skill_match_score.required_skill # NaN
          /\ skill_match_score.required_skill = skill_match_score.tech_skill)
           => skill_match_score.score = 1000

\* calculate_skill_match_score was called for the pair (s1, s1), for which
\* history has three samples and no success, and returned 1.0; the table
\* stores 1.0 for the pair
ExactPairWithoutSuccessScored ==
    /\ TableLearned
    /\ SamplesOf("s1", "s1") = 3
    /\ SuccessesOf("s1", "s1") = 0
    /\ ScoreUnder(skill_compatibility_dict, "s1", "s1") = 1000
    /\ skill_match_score # <<>>
    /\ skill_match_score.required_skill = "s1"
    /\ skill_match_score.tech_skill = "s1"
    /\ skill_match_score.score = 1000

\* the number of entries of the per-technician lists
ListedTotal == SumOver(Techs, [t \in Techs |-> Len(assignments[t])])

\* C21: the bookkeeping of the optimizer stays consistent: after every step
\* of the greedy loop and after every reassignment attempt, accepted or
\* reverted, each assignment of assignment_map is exactly once in the list
\* of its own technician_id and in no other list, and the lengths of the
\* lists sum to the number of entries of assignment_map
BookkeepingConsistent ==
    engine = "optimizer" =>
      /\ \A k \in DOMAIN assignment_map : \A t \in Techs :
           CountOf(assignments[t], assignment_map[k])
             = IF t = assignment_map[k].technician_id THEN 1 ELSE 0
      /\ ListedTotal = Len(assignment_map)

\* a pass of try_reassignments has accepted a reassignment that moved a
\* dispatch to another technician and has reverted another attempt
MovedAndReverted ==
    /\ engine = "optimizer"
    /\ pc = "reassign"
    /\ pass_improvements > 0
    /\ \E k \in DOMAIN assignment_map :
         \E j \in DOMAIN run_start.assignment_map :
           /\ assignment_map[k].dispatch_id
                = run_start.assignment_map[j].dispatch_id
           /\ assignment_map[k].technician_id
                # run_start.assignment_map[j].technician_id
    /\ \E j \in DOMAIN run_start.assignment_map :
         /\ assignment_map[Len(assignment_map)]
              = run_start.assignment_map[j]
         /\ j # Len(run_start.assignment_map)

\* the dispatch ids of a list of assignments
IdsOf(list) == {list[i].dispatch_id : i \in DOMAIN list}

\* the number of entries of the per-technician lists for a dispatch
HoldersOf(dispatch_id) ==
    SumOver(Techs,
            [t \in Techs |->
                Cardinality({i \in DOMAIN assignments[t] :
                    assignments[t][i].dispatch_id = dispatch_id})])

\* C22: post-optimization never changes which dispatches are assigned: when
\* run_post_optimization has returned, the dispatch ids of assignment_map
\* are those it started with (the ids greedy assigned), each id has one
\* entry in the map and one technician holding it, and no dispatch that was
\* unassigned has become assigned
AssignedSetFrozen ==
    PostOptimized =>
      /\ IdsOf(assignment_map) = IdsOf(run_start.assignment_map)
      /\ Len(assignment_map) = Cardinality(IdsOf(assignment_map))
      /\ \A d \in IdsOf(assignment_map) : HoldersOf(d) = 1
      /\ \A i \in DOMAIN dispatches :
           ~(\E j \in DOMAIN run_start.assignment_map :
                run_start.assignment_map[j].dispatch_id
                  = dispatches[i].dispatch_id)
             => ~IsAssigned(dispatches[i].dispatch_id)

\* run_post_optimization has returned after it replaced the assignment of
\* a dispatch by one to another technician
ReplacedThenDone ==
    /\ PostOptimized
    /\ improvements_found > 0
    /\ \E k \in DOMAIN assignment_map :
         \E j \in DOMAIN run_start.assignment_map :
           /\ assignment_map[k].dispatch_id
                = run_start.assignment_map[j].dispatch_id
           /\ assignment_map[k].technician_id
                # run_start.assignment_map[j].technician_id

Buffers == {BufferOfLevel(fallback_level) : fallback_level \in 0..6}

WindowOf(dispatch) ==
    [start_datetime |-> dispatch.appointment_start_datetime,
     end_datetime |-> dispatch.appointment_end_datetime]

\* C24: the buffer of the overlap test applies on both sides: an assignment
\* a overlaps an appointment b under a buffer exactly when a starts before
\* the end of b plus the buffer and a's end plus the buffer lies after the
\* start of b
BufferedOnBothSides ==
    engine = "optimizer" =>
      \A t \in Techs : \A i \in DOMAIN assignments[t] :
        \A j \in DOMAIN dispatches : \A buffer_minutes \in Buffers :
          LET a == assignments[t][i]
              b == WindowOf(dispatches[j])
          IN  overlaps_with(a, b, buffer_minutes)
                <=> /\ a.start_datetime < b.end_datetime + buffer_minutes
                    /\ a.end_datetime + buffer_minutes > b.start_datetime

\* the entry a dispatch would leave in a technician's list
Booked(dispatch) ==
    [dispatch_id |-> dispatch.dispatch_id,
     start_datetime |-> dispatch.appointment_start_datetime,
     end_datetime |-> dispatch.appointment_end_datetime]

Conflicts(existing, dispatch, buffer_minutes) ==
    ConflictWarnings(<<Booked(existing)>>, dispatch, buffer_minutes) # <<>>

\* C29: the time-conflict check is symmetric: a new appointment A conflicts
\* with an existing B exactly when a new B conflicts with an existing A, so
\* the outcome does not depend on which of the two was assigned first
ConflictSymmetric ==
    engine = "optimizer" =>
      \A i, j \in DOMAIN dispatches : \A buffer_minutes \in Buffers :
        Conflicts(dispatches[i], dispatches[j], buffer_minutes)
          <=> Conflicts(dispatches[j], dispatches[i], buffer_minutes)

\* C25: the candidate choice: whenever an option without warnings exists
\* the chosen one has no warnings; among the options as clean as the chosen
\* one none scores higher; and among those that also score the same none
\* is nearer
CleanThenScoreThenDistance ==
    (Greedy /\ idx <= Len(dispatches)
       /\ ~assign_dispatch_raises(SortValues(dispatches)[idx], assignments, 0))
    => LET dispatch == SortValues(dispatches)[idx]
           a == assign_dispatch(dispatch, assignments, 0)
       IN  a.technician_id # None =>
             LET scored == ScoredOptions(OptionsOf(dispatch, assignments,
                                                   a.fallback_level))
             IN  \A i \in DOMAIN scored :
                   LET o == scored[i]
                       as_clean == (o.is_clean <=> a.warnings = <<>>)
                   IN  /\ o.is_clean => a.warnings = <<>>
                       /\ as_clean => a.score >= o.score
                       /\ as_clean /\ o.score = a.score
                            => a.distance <= o.distance

\* the dispatch window meets the window of an assignment of the list
Overlapping(tech_assignments, dispatch) ==
    \E i \in DOMAIN tech_assignments :
        /\ dispatch.appointment_start_datetime
             < tech_assignments[i].end_datetime
        /\ dispatch.appointment_end_datetime
             > tech_assignments[i].start_datetime

\* at level 0 nothing but the overlap stands against this technician
OnlyOverlapBlocks(dispatch, tech_id, asg) ==
    /\ Overlapping(asg[tech_id], dispatch)
    /\ WorkloadOk(dispatch.priority, Len(asg[tech_id]) + 1,
                  technicians[tech_id].Workload_capacity)
    /\ Without(check_availability(dispatch, tech_id, asg,
                                  BufferOfLevel(0)).warnings,
               {"Time conflict with dispatch"}) = <<>>

\* the best success probability among the options that do not overlap
BestNonOverlap(options) ==
    MaxOf([i \in DOMAIN options |-> options[i].success_prob])

\* C26: the priority overlap exception: when a technician whose slot
\* overlaps an existing assignment promises at least 0.20 (Critical) or 0.25
\* (High) more than the best non-overlapping candidate, the dispatch is
\* placed at level 0 to 2 on an overlapping slot; and an assignment made at
\* levels 0 to 2 on an overlapping slot is one of a Critical or High
\* dispatch with that margin
PriorityOverlapException ==
    (Greedy /\ idx <= Len(dispatches)
       /\ ~assign_dispatch_raises(SortValues(dispatches)[idx], assignments, 0))
    => LET dispatch == SortValues(dispatches)[idx]
           a == assign_dispatch(dispatch, assignments, 0)
           options == OptionsOf(dispatch, assignments, 0)
           order == EvaluatedOrder(dispatch,
                                   CandidateTechs(dispatch, 0).techs)
           placed_on_overlap ==
               /\ a.technician_id # None
               /\ a.fallback_level <= 2
               /\ Overlapping(assignments[a.technician_id], dispatch)
       IN  /\ (/\ options # <<>>
               /\ \E i \in DOMAIN order :
                    /\ OnlyOverlapBlocks(dispatch, order[i], assignments)
                    /\ can_use_overlap_exception(dispatch,
                         predictions[dispatch.dispatch_id][order[i]]
                             .success_prob,
                         BestNonOverlap(options)))
                => placed_on_overlap
           /\ placed_on_overlap
                => /\ options # <<>>
                   /\ can_use_overlap_exception(dispatch,
                          a.success_probability, BestNonOverlap(options))

\* the entries of the list before position i whose window meets that of
\* entry i
OverlappedBy(list, i) ==
    {j \in 1..(i - 1) :
        /\ list[i].start_datetime < list[j].end_datetime
        /\ list[i].end_datetime > list[j].start_datetime}

\* the entries at the positions S meet each other pairwise
MutuallyConcurrent(list, S) ==
    \A i, j \in S :
        i # j => /\ list[i].start_datetime < list[j].end_datetime
                 /\ list[i].end_datetime > list[j].start_datetime

\* C27: the concurrency relaxation is bounded: an assignment accepted at
\* fallback level 3, 4 or 5 overlaps at most 2 assignments its technician
\* already had, and a technician whose assignments were all made below
\* level 6 holds no more than 3 mutually concurrent appointments
ConcurrencyBounded ==
    Greedy =>
      \A t \in Techs :
        /\ \A i \in DOMAIN assignments[t] :
             assignments[t][i].fallback_level \in 3..5
               => Cardinality(OverlappedBy(assignments[t], i)) <= 2
        /\ (\A i \in DOMAIN assignments[t] :
               assignments[t][i].fallback_level < 6)
             => \A S \in SUBSET DOMAIN assignments[t] :
                  MutuallyConcurrent(assignments[t], S)
                    => Cardinality(S) <= 3

\* the invocations of the ladder are at most 7, start at level 0, go up by
\* one level at a time, stay at or below level 6, and every level but the
\* last produced no admissible option
LadderStepwise(dispatch, asg) ==
    LET levels == Ladder(dispatch, asg, 0)
    IN  /\ Len(levels) <= 7
        /\ levels[1] = 0
        /\ \A k \in 2..Len(levels) : levels[k] = levels[k - 1] + 1
        /\ \A k \in DOMAIN levels : levels[k] <= 6
        /\ \A k \in 1..(Len(levels) - 1) :
             OptionsOf(dispatch, asg, levels[k]) = <<>>

\* the call returns, and returns None only from level 6
EndsAssignedOrNoneAtSix(dispatch, asg) ==
    /\ ~assign_dispatch_raises(dispatch, asg, 0)
    /\ assign_dispatch(dispatch, asg, 0).technician_id = None
         => Ladder(dispatch, asg, 0)[Len(Ladder(dispatch, asg, 0))] = 6

\* C28: the fallback ladder terminates and is stepwise: a call of
\* assign_dispatch at level 0 makes at most 7 nested invocations, each
\* escalation raises the level by exactly 1, the level never exceeds 6, a
\* level escalates only when it produced no admissible option, and the call
\* ends with an assignment or with None at level 6
LadderTerminatesStepwise ==
    (Greedy /\ idx <= Len(dispatches))
    => /\ LadderStepwise(SortValues(dispatches)[idx], assignments)
       /\ EndsAssignedOrNoneAtSix(SortValues(dispatches)[idx], assignments)

DefaultOrder == <<"demand", "availability", "time">>

\* no factor of the conditions scores above 5
NothingUrgent == \A i \in 1..3 : Factors(conditions)[i].score <= 5

\* the factor of this name, as intelligent_auto_select computed it
FactorNamed(name) ==
    Factors(conditions)[CHOOSE k \in 1..3 :
                            Factors(conditions)[k].name = name]

====
